---- MODULE Spec2Model ----
(***************************************************************************)
(* Model of the spoolbuddy server's printer connection layer:              *)
(*   - PrinterManager (server/src/printer_manager.rs): the registries      *)
(*     `connections`, `states`, `connected`, `shutdown_txs`, and the       *)
(*     operations connect / disconnect / send_command / handle_event;      *)
(*   - the task spawned by connect (printer_manager.rs:128-141), which     *)
(*     races BambuMqttClient::run against the shutdown channel;            *)
(*   - BambuMqttClient::run / connect_and_run (server/src/mqtt/client.rs), *)
(*     the reconnect loop and the steady-state loop;                       *)
(*   - the event task of main (server/src/main.rs:124-129), which feeds    *)
(*     every broadcast event to handle_event in emission order.            *)
(*                                                                         *)
(* Manager calls are atomic steps; a session task advances one await       *)
(* point at a time.  Code that runs between two await points of a task     *)
(* (for instance "select! completes, then event_tx.send(Disconnected)")    *)
(* is one step.                                                            *)
(***************************************************************************)
EXTENDS Integers, Sequences, FiniteSets, TLC

\* ---- bounds of the model ------------------------------------------------
Serials == {"P1", "P2"}
MaxSessions == 2      \* session tasks spawned in one behaviour
MaxCommands == 1      \* PrinterManager::send_command calls
MaxQueued == 2        \* send_command calls in one behaviour of QueueSpec
MaxReports == 2       \* report payloads received from devices
MaxPending == 1       \* events sent and not yet taken by main's receiver
MaxEvents == 102      \* event_tx.send calls in one behaviour of BroadcastSpec
MaxConnects == 1      \* connect calls per serial in one behaviour of LockSpec
MaxListeners == 2     \* discovery listeners spawned in one behaviour
MaxFound == 2         \* DiscoveredPrinters sent in one behaviour of DiscoverySpec
MaxLines == 5         \* lines of a discovery packet
MaxEarly == 1         \* handshake polls of one connect_and_run that return a
                      \* pre-connect event before their second is over

\* ---- program constants --------------------------------------------------
CommandCapacity == 32 \* mpsc::channel(32)
EventCapacity == 100  \* broadcast::channel(100)

VARIABLES
    connections,   \* serial -> task id owning the receiver of the handle's command_tx
    states,        \* serial -> PrinterState
    connected,     \* serial -> BOOLEAN
    shutdown_txs,  \* serial -> task id owning the receiver of the stored sender
    tasks,         \* sequence of spawned session tasks, index = task id
    events,        \* PrinterEvents sent on event_tx that main's receiver has not taken yet
    last_sent,     \* serial -> state of the latest StateUpdate sent for it since
                   \* the last disconnect(serial) (history)
    cmd_log,       \* command number -> result of its send_command call and how
                   \* often it was published (history)
    ncmds,         \* commands constructed by callers so far
    nreports,      \* reports received so far
    ret,           \* outcome of the most recent manager call
    hs,            \* handshake loop of the running connect_and_run: loop
                   \* variable, polls made, full 1 s waits, last poll, outcome
    trace,         \* steps of the running connect_and_run, in program order
    last_payload,  \* payload of the latest report given to handle_message
    emitted,       \* event_tx.send calls made by the session (history)
    tail,          \* events stored in the broadcast buffer so far
    rx,            \* broadcast receivers: cursor, events skipped, still held
    calls,         \* manager calls in progress, by caller
    running,       \* SsdpDiscovery.running
    listeners,     \* sequence of spawned discovery listeners: position in
                   \* the loop, bound ports, sockets left in this round
    starts,        \* SsdpDiscovery::start calls in progress, by caller
    heard,         \* latest packet a listener received and what it parsed to
    found,         \* DiscoveredPrinters sent on the discovery channel (history)
    dret,          \* outcome of the most recent discovery call
    input,         \* value given to a codec function
    output         \* what the function made of it

\* state that only the detailed specifications (SessionSpec, BroadcastSpec,
\* LockSpec) change
discovery == <<running, listeners, starts, heard, found, dret>>

codec == <<input, output>>

detail == <<hs, trace, last_payload, emitted, tail, rx, calls, discovery, codec>>

vars == <<connections, states, connected, shutdown_txs, tasks, events,
          last_sent, cmd_log, ncmds, nreports, ret, detail>>

\* ---- maps ---------------------------------------------------------------
EmptyMap == [k \in {} |-> 0]

Insert(m, k, v) == [x \in DOMAIN m \cup {k} |-> IF x = k THEN v ELSE m[x]]

Remove(m, k) == [x \in DOMAIN m \ {k} |-> m[x]]

\* ---- PrinterState built from report number r ------------------------------
PrinterStateOf(r) == [gcode_state |-> r, layer_num |-> r]

\* ---- events -------------------------------------------------------------
\* `task` is the emitting task: it is not part of the Rust value, it only
\* lets properties tell the emitters apart.
EvConnected(t, s) == [type |-> "Connected", serial |-> s, task |-> t, state |-> 0]

EvDisconnected(t, s) == [type |-> "Disconnected", serial |-> s, task |-> t, state |-> 0]

EvStateUpdate(t, s, st) == [type |-> "StateUpdate", serial |-> s, task |-> t, state |-> st]

\* PrinterEvent::Error: no code of the server sends it; the message is not modelled
EvError(t, s) == [type |-> "Error", serial |-> s, task |-> t, state |-> 0]

\* ---- queries ------------------------------------------------------------
IsConnected(s) == IF s \in DOMAIN connected THEN connected[s] ELSE FALSE

GetState(s) == IF s \in DOMAIN states THEN states[s] ELSE 0

TaskIds == 1..Len(tasks)

\* the task has not left its select! yet
Alive(t) == tasks[t].pc # "stopped"

\* a sender for the task's shutdown channel is still stored in shutdown_txs
ShutdownSenderHeld(t) == \E s \in DOMAIN shutdown_txs : shutdown_txs[s] = t

\* shutdown_rx.recv() is ready: a () is buffered, or every sender was dropped
\* variant: only a received () counts, a closed channel is not a stop
StopReadyOnSignal(t) == tasks[t].shutdown_rx = 1

StopReady(t) == tasks[t].shutdown_rx = 1 \/ ~ShutdownSenderHeld(t)

\* ---- initial values of the detailed state --------------------------------
\* connect_and_run has not polled yet
NoHandshake == [attempt |-> 0, polls |-> 0, waits |-> 0, last |-> "none",
                outcome |-> "none"]

NoPayload == [utf8 |-> TRUE, json |-> TRUE, print |-> "absent", info |-> "absent",
              seen |-> FALSE]

\* receiver 1 is the one PrinterManager::new returns (main's event task),
\* receiver 2 comes from PrinterManager::subscribe
Receivers == {1, 2}

NewReceiver == [next |-> 0, missed |-> 0, held |-> TRUE]

\* tasks that call the manager
Callers == {"a", "b"}

Idle == [op |-> "idle", serial |-> "", pc |-> "idle", target |-> 0]

\* Option::None of an optional string
None == "None"

\* Option::None of parse_ssdp_packet
NoDevice == [some |-> FALSE]

\* no value: nothing was given to a conversion, or it has not been applied
NoInput == [kind |-> "none"]

\* SsdpDiscovery::new: the flag is false and nothing is spawned
InitDiscovery ==
    /\ running = FALSE
    /\ listeners = <<>>
    /\ starts = [c \in Callers |-> "idle"]
    /\ heard = [listener |-> 0, utf8 |-> TRUE, lines |-> <<>>, result |-> NoDevice]
    /\ found = <<>>
    /\ dret = [op |-> "none", result |-> "none", spawned |-> 0]

InitManager ==
    /\ connections = EmptyMap
    /\ states = EmptyMap
    /\ connected = EmptyMap
    /\ shutdown_txs = EmptyMap
    /\ tasks = <<>>
    /\ events = <<>>
    /\ last_sent = EmptyMap
    /\ cmd_log = [c \in 1..MaxQueued |-> [result |-> "none", published |-> 0]]
    /\ ncmds = 0
    /\ nreports = 0
    /\ ret = [op |-> "none", serial |-> "", result |-> "none"]
    /\ hs = NoHandshake
    /\ trace = <<>>
    /\ last_payload = NoPayload
    /\ emitted = 0
    /\ tail = 0
    /\ rx = [r \in Receivers |-> NewReceiver]
    /\ calls = [c \in Callers |-> Idle]

Init ==
    /\ InitManager
    /\ InitDiscovery
    /\ input = NoInput
    /\ output = NoInput

\* ---- PrinterManager::connect ---------------------------------------------
ConnectRejects(s) == IsConnected(s)

NewTask(s) == [serial |-> s, pc |-> "connecting", command_rx |-> <<>>,
               shutdown_rx |-> 0, observed |-> FALSE, was_connected |-> FALSE]

Connect(s) ==
    IF ConnectRejects(s)
    THEN /\ ret' = [op |-> "connect", serial |-> s, result |-> "AlreadyConnected"]
         /\ UNCHANGED <<detail, connections, states, connected, shutdown_txs, tasks,
                        events, last_sent, cmd_log, ncmds, nreports>>
    ELSE /\ Len(tasks) < MaxSessions
         /\ tasks' = Append(tasks, NewTask(s))
         /\ connections' = Insert(connections, s, Len(tasks) + 1)
         /\ shutdown_txs' = Insert(shutdown_txs, s, Len(tasks) + 1)
         /\ ret' = [op |-> "connect", serial |-> s, result |-> "Ok"]
         /\ UNCHANGED <<detail, states, connected, events, last_sent, cmd_log, ncmds,
                        nreports>>

\* ---- PrinterManager::disconnect ------------------------------------------
SignalShutdown(s) ==
    IF s \in DOMAIN shutdown_txs
    THEN [tasks EXCEPT ![shutdown_txs[s]].shutdown_rx = 1]
    ELSE tasks

\* variant: the status is marked false instead of being removed
DisconnectStatusMarked(s) == Insert(connected, s, FALSE)

DisconnectStatus(s) == Remove(connected, s)

Disconnect(s) ==
    /\ tasks' = SignalShutdown(s)
    /\ shutdown_txs' = Remove(shutdown_txs, s)
    /\ connections' = Remove(connections, s)
    /\ connected' = DisconnectStatus(s)
    /\ states' = Remove(states, s)
    /\ last_sent' = Remove(last_sent, s)
    /\ ret' = [op |-> "disconnect", serial |-> s, result |-> "Ok"]
    /\ UNCHANGED <<detail, events, cmd_log, ncmds, nreports>>

\* ---- PrinterManager::send_command ----------------------------------------
\* The command constructed by the caller is number ncmds + 1.
\* variant: without a stored handle the newest task of the serial is used
HandleForNewestTask(s) ==
    IF s \in DOMAIN connections THEN connections[s]
    ELSE IF \E t \in TaskIds : tasks[t].serial = s
         THEN CHOOSE t \in TaskIds :
                  /\ tasks[t].serial = s
                  /\ \A u \in TaskIds : tasks[u].serial = s => u <= t
         ELSE 0

HandleFor(s) == IF s \in DOMAIN connections THEN connections[s] ELSE 0

SendResult(s) ==
    IF HandleFor(s) = 0 THEN "NotConnected"
    ELSE IF Alive(HandleFor(s)) THEN "Ok" ELSE "SendFailed"

SendCommand(s) ==
    /\ ncmds < MaxCommands
    /\ ncmds' = ncmds + 1
    /\ IF SendResult(s) = "Ok"
       THEN /\ Len(tasks[HandleFor(s)].command_rx) < CommandCapacity
            /\ tasks' = [tasks EXCEPT ![HandleFor(s)].command_rx = Append(@, ncmds + 1)]
       ELSE tasks' = tasks
    /\ cmd_log' = [cmd_log EXCEPT ![ncmds + 1].result = SendResult(s)]
    /\ ret' = [op |-> "send_command", serial |-> s, result |-> SendResult(s)]
    /\ UNCHANGED <<detail, connections, states, connected, shutdown_txs, events,
                   last_sent, nreports>>

\* ---- PrinterManager::handle_event, driven by the event task of main ------
\* variant: an Error event marks the printer as not connected
ApplyConnectedErrorDrops(e) ==
    CASE e.type = "Connected" -> Insert(connected, e.serial, TRUE)
      [] e.type \in {"Disconnected", "Error"} -> Insert(connected, e.serial, FALSE)
      [] OTHER -> connected

ApplyConnected(e) ==
    CASE e.type = "Connected" -> Insert(connected, e.serial, TRUE)
      [] e.type = "Disconnected" -> Insert(connected, e.serial, FALSE)
      [] OTHER -> connected

\* variant: an existing entry is kept (entry().or_insert instead of insert)
ApplyStateKeepFirst(e) ==
    IF e.type = "StateUpdate" /\ e.serial \notin DOMAIN states
    THEN Insert(states, e.serial, e.state)
    ELSE states

ApplyState(e) ==
    IF e.type = "StateUpdate" THEN Insert(states, e.serial, e.state) ELSE states

HandleEvent ==
    /\ events # <<>>
    /\ connected' = ApplyConnected(Head(events))
    /\ states' = ApplyState(Head(events))
    /\ events' = Tail(events)
    /\ UNCHANGED <<detail, connections, shutdown_txs, tasks, last_sent, cmd_log, ncmds,
                   nreports, ret>>

\* ---- the session task ----------------------------------------------------
\* connect_and_run up to the steady-state loop: ConnAck is polled, the
\* report topic is subscribed, send_command(PushAll) publishes the pushall
\* request, then Connected is emitted
\* variant: the session enters the steady state without announcing it
NotifyConnectedSilent(t) == events

NotifyConnected(t) == Append(events, EvConnected(t, tasks[t].serial))

Establish(t) ==
    /\ Alive(t) /\ tasks[t].pc = "connecting"
    /\ Len(events) < MaxPending
    /\ events' = NotifyConnected(t)
    /\ tasks' = [tasks EXCEPT ![t].pc = "active", ![t].was_connected = TRUE]
    /\ UNCHANGED <<detail, connections, states, connected, shutdown_txs, last_sent,
                   cmd_log, ncmds, nreports, ret>>

\* BambuMqttClient::run, Err arm: connect_and_run returned an error (poll
\* error, handshake timeout, subscribe or pushall error, steady-state poll
\* error); Disconnected is emitted and the 5 second sleep starts
\* variant: the session gives up after a failure instead of retrying
AfterFailureGivesUp(t) == [tasks EXCEPT ![t].pc = "stopped"]

AfterFailure(t) == [tasks EXCEPT ![t].pc = "sleeping"]

\* variant: an attempt that fails before Connected is not reported
FailQuiet(t) ==
    /\ Alive(t) /\ tasks[t].pc \in {"connecting", "active"}
    /\ Len(events) < MaxPending
    /\ events' = IF tasks[t].pc = "active"
                 THEN Append(events, EvDisconnected(t, tasks[t].serial))
                 ELSE events
    /\ tasks' = AfterFailure(t)
    /\ UNCHANGED <<detail, connections, states, connected, shutdown_txs, last_sent,
                   cmd_log, ncmds, nreports, ret>>

Fail(t) ==
    /\ Alive(t) /\ tasks[t].pc \in {"connecting", "active"}
    /\ Len(events) < MaxPending
    /\ events' = Append(events, EvDisconnected(t, tasks[t].serial))
    /\ tasks' = AfterFailure(t)
    /\ UNCHANGED <<detail, connections, states, connected, shutdown_txs, last_sent,
                   cmd_log, ncmds, nreports, ret>>

\* the 5 second sleep of run() ends
Wake(t) ==
    /\ Alive(t) /\ tasks[t].pc = "sleeping"
    /\ tasks' = [tasks EXCEPT ![t].pc = "connecting"]
    /\ UNCHANGED <<detail, connections, states, connected, shutdown_txs, events,
                   last_sent, cmd_log, ncmds, nreports, ret>>

\* steady state: a print report arrives and handle_print_message emits it
HandleMessage(t) ==
    /\ Alive(t) /\ tasks[t].pc = "active"
    /\ nreports < MaxReports
    /\ Len(events) < MaxPending
    /\ nreports' = nreports + 1
    /\ events' = Append(events,
                        EvStateUpdate(t, tasks[t].serial, PrinterStateOf(nreports + 1)))
    /\ last_sent' = Insert(last_sent, tasks[t].serial, PrinterStateOf(nreports + 1))
    /\ UNCHANGED <<detail, connections, states, connected, shutdown_txs, tasks,
                   cmd_log, ncmds, ret>>

\* steady state: command_rx.recv() yields a command and send_command
\* publishes it; when publish fails the error is logged and the loop goes on
\* variant: the command is read but stays at the head of the queue
RemainingCommandsPeek(t) == tasks[t].command_rx

RemainingCommands(t) == Tail(tasks[t].command_rx)

TakeCommand(t, ok) ==
    /\ Alive(t) /\ tasks[t].pc = "active"
    /\ tasks[t].command_rx # <<>>
    /\ LET c == Head(tasks[t].command_rx) IN
       /\ tasks' = [tasks EXCEPT ![t].command_rx = RemainingCommands(t)]
       /\ cmd_log' = IF ok THEN [cmd_log EXCEPT ![c].published = @ + 1] ELSE cmd_log
    /\ UNCHANGED <<detail, connections, states, connected, shutdown_txs, events,
                   last_sent, ncmds, nreports, ret>>

\* select! takes the shutdown_rx.recv() arm: client.run() is dropped (and
\* with it command_rx and the MQTT client), the task sends Disconnected and
\* ends; nothing of the task is left
\* variant: the stop is handled like a failure and the task sleeps, then retries
PcAfterStopRetries(t) == "sleeping"

PcAfterStop(t) == "stopped"

StoppedTask(t) ==
    [tasks EXCEPT ![t] = [serial |-> tasks[t].serial, pc |-> PcAfterStop(t),
                          command_rx |-> <<>>, shutdown_rx |-> 0,
                          observed |-> TRUE,
                          was_connected |-> tasks[t].was_connected]]

\* variant: Disconnected is sent only by a task that had sent Connected
ExitEventsIfConnected(t) ==
    IF tasks[t].was_connected
    THEN Append(events, EvDisconnected(t, tasks[t].serial))
    ELSE events

ExitEvents(t) == Append(events, EvDisconnected(t, tasks[t].serial))

ObserveStop(t) ==
    /\ Alive(t) /\ StopReady(t)
    /\ Len(events) < MaxPending
    /\ tasks' = StoppedTask(t)
    /\ events' = ExitEvents(t)
    /\ UNCHANGED <<detail, connections, states, connected, shutdown_txs, last_sent,
                   cmd_log, ncmds, nreports, ret>>

Next ==
    \/ \E s \in Serials : Disconnect(s)
    \/ \E s \in Serials : Connect(s)
    \/ \E s \in Serials : SendCommand(s)
    \/ HandleEvent
    \/ \E t \in TaskIds : Establish(t)
    \/ \E t \in TaskIds : Fail(t)
    \/ \E t \in TaskIds : Wake(t)
    \/ \E t \in TaskIds : HandleMessage(t)
    \/ \E t \in TaskIds, ok \in BOOLEAN : TakeCommand(t, ok)
    \/ \E t \in TaskIds : ObserveStop(t)

Spec == Init /\ [][Next]_vars

\* Scheduling: the runtime keeps polling every spawned task and the event
\* task of main.rs, so the reconnect sleep ends and pending events are
\* consumed; event_tx.send never blocks, so a connection attempt that can
\* succeed is not held back for ever by the bound on pending events.
SessionProgress(t) ==
    /\ WF_vars(t \in TaskIds /\ Wake(t))
    /\ SF_vars(t \in TaskIds /\ Establish(t))

\* the manager with a single configured printer: every call names it
OnePrinter == "P1"

OnePrinterNext ==
    \/ Disconnect(OnePrinter)
    \/ Connect(OnePrinter)
    \/ SendCommand(OnePrinter)
    \/ HandleEvent
    \/ \E t \in TaskIds : Establish(t)
    \/ \E t \in TaskIds : Fail(t)
    \/ \E t \in TaskIds : Wake(t)
    \/ \E t \in TaskIds : HandleMessage(t)
    \/ \E t \in TaskIds, ok \in BOOLEAN : TakeCommand(t, ok)
    \/ \E t \in TaskIds : ObserveStop(t)

FairSpec ==
    /\ Init /\ [][OnePrinterNext]_vars
    /\ WF_vars(HandleEvent)
    /\ \A t \in 1..MaxSessions : SessionProgress(t)

\* The shutdown arm of select! is polled as soon as the stop channel holds a
\* () or is closed (either wakes the task), and the Disconnected it sends
\* never waits for room.
StopFairSpec ==
    /\ FairSpec
    /\ \A t \in 1..MaxSessions : SF_vars(t \in TaskIds /\ ObserveStop(t))

\* ==== SessionSpec: one session, connect_and_run step by step ===============
\* The caller connects the printer once; the session's handshake loop, the
\* subscribe and pushall requests and the steady-state loop are separate
\* steps.  `trace` lists what the running connect_and_run has done.
HandshakeAttempts == 30   \* for attempt in 0..30

\* what one timeout(1 s, eventloop.poll()) of the handshake loop returns
PollOutcomes == {"ConnAck", "Other", "Error", "Elapsed"}

\* the manager state the session does not touch
ManagerSide == <<connections, shutdown_txs, states, connected, ret>>

\* the other detailed specifications' state
NotSession == <<emitted, tail, rx, calls, discovery, codec>>

\* variant: a pre-connect event does not use up an attempt
NextAttemptSkipsOther(o) == IF o = "Other" THEN hs.attempt ELSE hs.attempt + 1

\* the loop variable after a poll that returned o
NextAttempt(o) == hs.attempt + 1

\* the poll record after a poll that returned o: only Err(Elapsed) means
\* that the whole second was waited
Polled(o) ==
    [attempt |-> NextAttempt(o), polls |-> hs.polls + 1,
     waits |-> IF o = "Elapsed" THEN hs.waits + 1 ELSE hs.waits,
     last |-> o, outcome |-> hs.outcome]

\* one iteration of the handshake loop (client.rs:155-174) and, when the
\* loop ends without ConnAck, the timeout error of line 176
Poll(t, o) ==
    /\ Alive(t) /\ tasks[t].pc = "connecting"
    /\ o = "Other" => hs.polls - hs.waits < MaxEarly
    /\ CASE o = "ConnAck" ->
              /\ hs' = [Polled(o) EXCEPT !.outcome = "acknowledged"]
              /\ trace' = Append(trace, "connack")
              /\ tasks' = [tasks EXCEPT ![t].pc = "subscribing"]
              /\ events' = events
         [] o = "Error" ->
              /\ Len(events) < MaxPending
              /\ hs' = [Polled(o) EXCEPT !.outcome = "error"]
              /\ events' = Append(events, EvDisconnected(t, tasks[t].serial))
              /\ tasks' = AfterFailure(t)
              /\ trace' = trace
         [] OTHER ->
              IF Polled(o).attempt >= HandshakeAttempts
              THEN /\ Len(events) < MaxPending
                   /\ hs' = [Polled(o) EXCEPT !.outcome = "timeout"]
                   /\ events' = Append(events, EvDisconnected(t, tasks[t].serial))
                   /\ tasks' = AfterFailure(t)
                   /\ trace' = trace
              ELSE /\ hs' = Polled(o)
                   /\ UNCHANGED <<tasks, events, trace>>
    /\ UNCHANGED <<ManagerSide, last_sent, cmd_log, ncmds, nreports,
                   last_payload, NotSession>>

\* a request or a steady-state poll failed: the error is returned to run(),
\* which emits Disconnected and starts its sleep
RequestFailed(t) ==
    /\ Len(events) < MaxPending
    /\ events' = Append(events, EvDisconnected(t, tasks[t].serial))
    /\ tasks' = AfterFailure(t)
    /\ hs' = [hs EXCEPT !.outcome = "error"]
    /\ trace' = trace

\* variant: the result of subscribe is not looked at
SubscribeResultIgnored(ok) == TRUE

\* client.subscribe(report_topic).await? lets the handshake go on
SubscribeResult(ok) == ok

Subscribe(t, ok) ==
    /\ Alive(t) /\ tasks[t].pc = "subscribing"
    /\ IF SubscribeResult(ok)
       THEN /\ trace' = IF ok THEN Append(trace, "subscribe") ELSE trace
            /\ tasks' = [tasks EXCEPT ![t].pc = "pushall"]
            /\ UNCHANGED <<events, hs>>
       ELSE RequestFailed(t)
    /\ UNCHANGED <<ManagerSide, last_sent, cmd_log, ncmds, nreports,
                   last_payload, NotSession>>

\* self.send_command(PushAll).await? and, right after it, the Connected event
PushAll(t, ok) ==
    /\ Alive(t) /\ tasks[t].pc = "pushall"
    /\ Len(events) < MaxPending
    /\ IF ok
       THEN /\ trace' = trace \o <<"pushall", "Connected">>
            /\ events' = NotifyConnected(t)
            /\ tasks' = [tasks EXCEPT ![t].pc = "active", ![t].was_connected = TRUE]
            /\ hs' = [hs EXCEPT !.outcome = "connected"]
       ELSE RequestFailed(t)
    /\ UNCHANGED <<ManagerSide, last_sent, cmd_log, ncmds, nreports,
                   last_payload, NotSession>>

\* steady state: eventloop.poll() returns an error
PollError(t) ==
    /\ Alive(t) /\ tasks[t].pc = "active"
    /\ RequestFailed(t)
    /\ UNCHANGED <<ManagerSide, last_sent, cmd_log, ncmds, nreports,
                   last_payload, NotSession>>

\* the sleep of run() ends and connect_and_run starts again
Retry(t) ==
    /\ Alive(t) /\ tasks[t].pc = "sleeping"
    /\ tasks' = [tasks EXCEPT ![t].pc = "connecting"]
    /\ hs' = NoHandshake
    /\ trace' = <<>>
    /\ UNCHANGED <<ManagerSide, events, last_sent, cmd_log, ncmds, nreports,
                   last_payload, NotSession>>

\* ---- report payloads ------------------------------------------------------
\* A payload is described by what the decoder looks at: whether the bytes
\* are UTF-8, whether the text is JSON, and for each of the keys "print" and
\* "info" whether it is absent, present with a value that deserializes
\* (PrintData has no required field of its own; InfoData requires command,
\* sequence_id and module), or present with a value that does not.
Shapes == {"absent", "valid", "invalid"}

Payloads ==
    {p \in [utf8 : BOOLEAN, json : BOOLEAN, print : Shapes, info : Shapes,
            seen : {TRUE}] :
        /\ ~p.utf8 => ~p.json
        /\ ~p.json => (p.print = "absent" /\ p.info = "absent")}

\* variant: a "print" value that does not deserialize is read as an empty
\* PrintData
ParseMessageLenient(p) ==
    IF ~p.json THEN "Err"
    ELSE IF p.print # "absent" THEN "Print"
    ELSE IF p.info = "valid" THEN "Info"
    ELSE "Err"

\* serde_json::from_str::<Message>: the untagged enum tries Print, then Info
ParseMessage(p) ==
    IF ~p.json THEN "Err"
    ELSE IF p.print = "valid" THEN "Print"
    ELSE IF p.info = "valid" THEN "Info"
    ELSE "Err"

\* handle_message reaches handle_print_message, which sends one StateUpdate
EmitsStateUpdate(p) == p.utf8 /\ ParseMessage(p) = "Print"

\* steady state: a publish arrives on the report topic
ReceivePayload(t, p) ==
    /\ Alive(t) /\ tasks[t].pc = "active"
    /\ nreports < MaxReports
    /\ nreports' = nreports + 1
    /\ last_payload' = p
    /\ IF EmitsStateUpdate(p)
       THEN /\ Len(events) < MaxPending
            /\ events' = Append(events,
                   EvStateUpdate(t, tasks[t].serial, PrinterStateOf(nreports + 1)))
            /\ last_sent' = Insert(last_sent, tasks[t].serial,
                                   PrinterStateOf(nreports + 1))
       ELSE UNCHANGED <<events, last_sent>>
    /\ UNCHANGED <<ManagerSide, tasks, cmd_log, ncmds, hs, trace, NotSession>>

\* steady state: a queued command is taken and send_command publishes it
\* variant: the command queued last is taken first
PublishNewestFirst(t, ok) ==
    /\ Alive(t) /\ tasks[t].pc = "active"
    /\ tasks[t].command_rx # <<>>
    /\ LET q == tasks[t].command_rx
           c == q[Len(q)] IN
       /\ tasks' = [tasks EXCEPT ![t].command_rx = SubSeq(q, 1, Len(q) - 1)]
       /\ cmd_log' = IF ok THEN [cmd_log EXCEPT ![c].published = @ + 1] ELSE cmd_log
    /\ trace' = IF ok THEN Append(trace, "command") ELSE trace
    /\ UNCHANGED <<ManagerSide, events, last_sent, ncmds, nreports, hs,
                   last_payload, NotSession>>

Publish(t, ok) ==
    /\ Alive(t) /\ tasks[t].pc = "active"
    /\ tasks[t].command_rx # <<>>
    /\ LET c == Head(tasks[t].command_rx) IN
       /\ tasks' = [tasks EXCEPT ![t].command_rx = RemainingCommands(t)]
       /\ cmd_log' = IF ok THEN [cmd_log EXCEPT ![c].published = @ + 1] ELSE cmd_log
    /\ trace' = IF ok THEN Append(trace, "command") ELSE trace
    /\ UNCHANGED <<ManagerSide, events, last_sent, ncmds, nreports, hs,
                   last_payload, NotSession>>

SessionNext ==
    \/ tasks = <<>> /\ Connect(OnePrinter)
    \/ Disconnect(OnePrinter)
    \/ SendCommand(OnePrinter)
    \/ HandleEvent
    \/ \E t \in TaskIds, o \in PollOutcomes : Poll(t, o)
    \/ \E t \in TaskIds, ok \in BOOLEAN : Subscribe(t, ok)
    \/ \E t \in TaskIds, ok \in BOOLEAN : PushAll(t, ok)
    \/ \E t \in TaskIds : PollError(t)
    \/ \E t \in TaskIds : Retry(t)
    \/ \E t \in TaskIds, p \in Payloads : ReceivePayload(t, p)
    \/ \E t \in TaskIds, ok \in BOOLEAN : Publish(t, ok)
    \/ \E t \in TaskIds : ObserveStop(t)

SessionSpec == Init /\ [][SessionNext]_vars

\* ==== QueueSpec: commands sent while the session is not Active ============
\* One session as in SessionSpec; every send_command call is made while the
\* session is connecting or sleeping before its next attempt, where the
\* handle is registered and the queue has room, so the call returns Ok.
SendQueued(s) ==
    /\ ncmds < MaxQueued
    /\ SendResult(s) = "Ok" /\ tasks[HandleFor(s)].pc # "active"
    /\ Len(tasks[HandleFor(s)].command_rx) < CommandCapacity
    /\ ncmds' = ncmds + 1
    /\ tasks' = [tasks EXCEPT ![HandleFor(s)].command_rx = Append(@, ncmds + 1)]
    /\ cmd_log' = [cmd_log EXCEPT ![ncmds + 1].result = "Ok"]
    /\ ret' = [op |-> "send_command", serial |-> s, result |-> "Ok"]
    /\ UNCHANGED <<detail, connections, states, connected, shutdown_txs, events,
                   last_sent, nreports>>

QueueNext ==
    \/ tasks = <<>> /\ Connect(OnePrinter)
    \/ SendQueued(OnePrinter)
    \/ HandleEvent
    \/ \E t \in TaskIds, o \in PollOutcomes : Poll(t, o)
    \/ \E t \in TaskIds, ok \in BOOLEAN : Subscribe(t, ok)
    \/ \E t \in TaskIds, ok \in BOOLEAN : PushAll(t, ok)
    \/ \E t \in TaskIds : PollError(t)
    \/ \E t \in TaskIds : Retry(t)
    \/ \E t \in TaskIds, ok \in BOOLEAN : Publish(t, ok)
    \/ Disconnect(OnePrinter)
    \/ \E t \in TaskIds : ObserveStop(t)

QueueSpec == Init /\ [][QueueNext]_vars

\* ==== BroadcastSpec: the event channel and its receivers ===================
\* tokio's broadcast channel keeps the last EventCapacity values.  Values
\* are numbered 1, 2, ... in the order they were stored; a receiver's cursor
\* `next` is the number of values it is past.  Both receivers exist before
\* the first event is sent.
NotBroadcast == <<connections, states, connected, shutdown_txs, tasks, events,
                  last_sent, cmd_log, ncmds, nreports, ret, hs, trace,
                  last_payload, calls, discovery, codec>>

HeldReceivers == {r \in Receivers : rx[r].held}

\* variant: the slot being written next is already given up
OldestOffByOne == IF tail > EventCapacity - 1 THEN tail - (EventCapacity - 1) ELSE 0

\* values before this position were overwritten
Oldest == IF tail > EventCapacity THEN tail - EventCapacity ELSE 0

\* variant: send waits until every receiver has left room (a bounded queue)
SendReadyWhenRoom == \A r \in HeldReceivers : tail - rx[r].next < EventCapacity

\* broadcast::Sender::send is not async: there is nothing it can wait for
SendReady == TRUE

\* `let _ = event_tx.send(event)`: the value is stored when a receiver
\* exists, otherwise send returns an error that is dropped
Send ==
    /\ emitted < MaxEvents
    /\ SendReady
    /\ emitted' = emitted + 1
    /\ tail' = IF HeldReceivers # {} THEN tail + 1 ELSE tail
    /\ UNCHANGED <<rx, NotBroadcast>>

\* recv() of a receiver that is behind: the next value, or Err(Lagged) when
\* that value was overwritten; the cursor then moves to the oldest value
\* kept.  main's loop `while let Ok(event) = recv().await` ends on the error
\* and drops receiver 1.
Lagging(r) == rx[r].next < Oldest

Recv(r) ==
    /\ rx[r].held /\ rx[r].next < tail
    /\ rx' = [rx EXCEPT ![r] =
                IF Lagging(r)
                THEN [next |-> Oldest, missed |-> @.missed + (Oldest - @.next),
                      held |-> r # 1]
                ELSE [@ EXCEPT !.next = @ + 1]]
    /\ UNCHANGED <<emitted, tail, NotBroadcast>>

\* the subscriber drops the receiver it got from subscribe()
Unsubscribe(r) ==
    /\ r = 2 /\ rx[r].held
    /\ rx' = [rx EXCEPT ![r].held = FALSE]
    /\ UNCHANGED <<emitted, tail, NotBroadcast>>

BroadcastNext ==
    \/ Send
    \/ \E r \in Receivers : Recv(r)
    \/ \E r \in Receivers : Unsubscribe(r)

BroadcastSpec == Init /\ [][BroadcastNext]_vars

\* ==== LockSpec: the manager's calls, lock by lock ==========================
\* connect, disconnect and send_command are followed from one .await to the
\* next.  A call's position says which lock it holds or has asked for:
\*   "write_connections"  asked for connections.write()
\*   "read_connections"   asked for connections.read()
\*   "sending"            holds the connections read guard, inside
\*                        command_tx.send(command).await
\*   "lock_shutdown_txs"  asked for shutdown_txs.lock()
\*   "send_stop"          holds the shutdown_txs guard, inside tx.send(()).await
\* The guards of `connected` and `states` are never held across an .await,
\* so the sections that take them are single steps.  Every caller sends the
\* same command.
LockFrame == <<cmd_log, ncmds, nreports, hs, trace, last_payload, emitted, tail, rx,
               discovery, codec>>

InCall(c, op, pc) == calls[c].op = op /\ calls[c].pc = pc

\* tokio's RwLock is fair: read() waits while a writer is queued, write()
\* waits until every read guard is dropped
ReadGuardHeld == \E c \in Callers : calls[c].pc = "sending"

WriterQueued == \E c \in Callers : calls[c].pc = "write_connections"

ShutdownGuardHeld == \E c \in Callers : calls[c].pc = "send_stop"

Return(c, op, s, result) ==
    /\ calls' = [calls EXCEPT ![c] = Idle]
    /\ ret' = [op |-> op, serial |-> s, result |-> result]

\* the task of a connect call that has not reached tokio::spawn yet
Created(s) == [NewTask(s) EXCEPT !.pc = "created"]

Spawned(t) == tasks[t].pc # "created"

TasksOf(s) == {t \in TaskIds : tasks[t].serial = s}

\* connect: is_connected, then the two channels are created
ConnectBegin(c, s) ==
    /\ calls[c] = Idle
    /\ IF ConnectRejects(s)
       THEN /\ Return(c, "connect", s, "AlreadyConnected")
            /\ UNCHANGED tasks
       ELSE /\ Len(tasks) < MaxSessions /\ Cardinality(TasksOf(s)) < MaxConnects
            /\ tasks' = Append(tasks, Created(s))
            /\ calls' = [calls EXCEPT ![c] = [op |-> "connect", serial |-> s,
                                              pc |-> "write_connections",
                                              target |-> Len(tasks) + 1]]
            /\ UNCHANGED ret
    /\ UNCHANGED <<connections, states, connected, shutdown_txs, events, last_sent,
                   LockFrame>>

\* connect: connections.write().await, insert the handle
ConnectInsert(c) ==
    /\ InCall(c, "connect", "write_connections")
    /\ ~ReadGuardHeld
    /\ connections' = Insert(connections, calls[c].serial, calls[c].target)
    /\ calls' = [calls EXCEPT ![c].pc = "lock_shutdown_txs"]
    /\ UNCHANGED <<states, connected, shutdown_txs, tasks, events, last_sent, ret,
                   LockFrame>>

\* connect: shutdown_txs.lock().await, insert the sender, spawn the task,
\* return Ok(())
ConnectSpawn(c) ==
    /\ InCall(c, "connect", "lock_shutdown_txs")
    /\ ~ShutdownGuardHeld
    /\ shutdown_txs' = Insert(shutdown_txs, calls[c].serial, calls[c].target)
    /\ tasks' = [tasks EXCEPT ![calls[c].target].pc = "connecting"]
    /\ Return(c, "connect", calls[c].serial, "Ok")
    /\ UNCHANGED <<connections, states, connected, events, last_sent, LockFrame>>

DisconnectBegin(c, s) ==
    /\ calls[c] = Idle
    /\ calls' = [calls EXCEPT ![c] = [op |-> "disconnect", serial |-> s,
                                      pc |-> "lock_shutdown_txs", target |-> 0]]
    /\ UNCHANGED <<connections, states, connected, shutdown_txs, tasks, events,
                   last_sent, ret, LockFrame>>

\* disconnect: shutdown_txs.lock().await, remove(serial); without a sender
\* the guard is dropped at once
DisconnectTake(c) ==
    /\ InCall(c, "disconnect", "lock_shutdown_txs")
    /\ ~ShutdownGuardHeld
    /\ IF calls[c].serial \in DOMAIN shutdown_txs
       THEN calls' = [calls EXCEPT ![c].pc = "send_stop",
                                   ![c].target = shutdown_txs[calls[c].serial]]
       ELSE calls' = [calls EXCEPT ![c].pc = "write_connections"]
    /\ shutdown_txs' = Remove(shutdown_txs, calls[c].serial)
    /\ UNCHANGED <<connections, states, connected, tasks, events, last_sent, ret,
                   LockFrame>>

\* disconnect: tx.send(()).await under the guard.  The channel has room for
\* one () and this is the only send it ever gets; when the task has ended
\* the send fails and the error is dropped.
DisconnectSignal(c) ==
    /\ InCall(c, "disconnect", "send_stop")
    /\ tasks' = IF Alive(calls[c].target)
                THEN [tasks EXCEPT ![calls[c].target].shutdown_rx = 1]
                ELSE tasks
    /\ calls' = [calls EXCEPT ![c].pc = "write_connections"]
    /\ UNCHANGED <<connections, states, connected, shutdown_txs, events, last_sent,
                   ret, LockFrame>>

\* disconnect: connections.write().await, remove; then the connected and
\* states sections; return Ok(())
DisconnectRemove(c) ==
    /\ InCall(c, "disconnect", "write_connections")
    /\ ~ReadGuardHeld
    /\ connections' = Remove(connections, calls[c].serial)
    /\ connected' = DisconnectStatus(calls[c].serial)
    /\ states' = Remove(states, calls[c].serial)
    /\ last_sent' = Remove(last_sent, calls[c].serial)
    /\ Return(c, "disconnect", calls[c].serial, "Ok")
    /\ UNCHANGED <<shutdown_txs, tasks, events, LockFrame>>

SendBegin(c, s) ==
    /\ calls[c] = Idle
    /\ calls' = [calls EXCEPT ![c] = [op |-> "send_command", serial |-> s,
                                      pc |-> "read_connections", target |-> 0]]
    /\ UNCHANGED <<connections, states, connected, shutdown_txs, tasks, events,
                   last_sent, ret, LockFrame>>

\* send_command: connections.read().await, connections.get(serial)
SendLookup(c) ==
    /\ InCall(c, "send_command", "read_connections")
    /\ ~WriterQueued
    /\ IF HandleFor(calls[c].serial) = 0
       THEN Return(c, "send_command", calls[c].serial, "NotConnected")
       ELSE /\ calls' = [calls EXCEPT ![c].pc = "sending",
                                      ![c].target = HandleFor(calls[c].serial)]
            /\ UNCHANGED ret
    /\ UNCHANGED <<connections, states, connected, shutdown_txs, tasks, events,
                   last_sent, LockFrame>>

\* variant: one more command than the capacity is accepted
HasRoomOffByOne(t) == Len(tasks[t].command_rx) <= CommandCapacity

HasRoom(t) == Len(tasks[t].command_rx) < CommandCapacity

\* send_command: command_tx.send(command).await completes, the read guard is
\* dropped and the call returns.  The send completes with an error when the
\* receiver is gone and with Ok when the queue has room; until then the
\* call stays here.
SendDeliver(c) ==
    /\ InCall(c, "send_command", "sending")
    /\ IF ~Alive(calls[c].target)
       THEN /\ Return(c, "send_command", calls[c].serial, "SendFailed")
            /\ UNCHANGED tasks
       ELSE /\ HasRoom(calls[c].target)
            /\ tasks' = [tasks EXCEPT ![calls[c].target].command_rx = Append(@, 1)]
            /\ Return(c, "send_command", calls[c].serial, "Ok")
    /\ UNCHANGED <<connections, states, connected, shutdown_txs, events, last_sent,
                   LockFrame>>

\* the steps a call in progress can take
CallStep(c) ==
    \/ ConnectInsert(c) \/ ConnectSpawn(c)
    \/ DisconnectTake(c) \/ DisconnectSignal(c) \/ DisconnectRemove(c)
    \/ SendLookup(c) \/ SendDeliver(c)

\* steady state: command_rx.recv() yields a command and it is published
TakeQueued(t) ==
    /\ tasks[t].pc = "active"
    /\ tasks[t].command_rx # <<>>
    /\ tasks' = [tasks EXCEPT ![t].command_rx = RemainingCommands(t)]
    /\ UNCHANGED <<connections, states, connected, shutdown_txs, events, last_sent,
                   ret, calls, LockFrame>>

\* the () a disconnect call is about to send keeps shutdown_rx.recv() pending
StopSenderInCall(t) ==
    \E c \in Callers : calls[c].pc = "send_stop" /\ calls[c].target = t

\* Commands and disconnects go to one printer, and that printer's session
\* is the one followed step by step; the session of the other printer is
\* created and spawned only.
SendSerials == {OnePrinter}

Followed == TasksOf(OnePrinter)

LockNext ==
    \/ \E c \in Callers, s \in Serials : ConnectBegin(c, s)
    \/ \E c \in Callers : ConnectInsert(c)
    \/ \E c \in Callers : ConnectSpawn(c)
    \/ \E c \in Callers, s \in SendSerials : DisconnectBegin(c, s)
    \/ \E c \in Callers : DisconnectTake(c)
    \/ \E c \in Callers : DisconnectSignal(c)
    \/ \E c \in Callers : DisconnectRemove(c)
    \/ \E c \in Callers, s \in SendSerials : SendBegin(c, s)
    \/ \E c \in Callers : SendLookup(c)
    \/ \E c \in Callers : SendDeliver(c)
    \/ \E t \in Followed : TakeQueued(t)
    \/ \E t \in Followed : Spawned(t) /\ Establish(t)
    \/ \E t \in Followed : Spawned(t) /\ Fail(t)
    \/ \E t \in Followed : Spawned(t) /\ Wake(t)
    \/ \E t \in Followed : Spawned(t) /\ ~StopSenderInCall(t) /\ ObserveStop(t)
    \/ HandleEvent

LockSpec == Init /\ [][LockNext]_vars

\* ==== discovery: parse_ssdp_packet ========================================
\* A packet is its bytes read as text and cut into lines; a line is the pair
\* line.split_once(' ') gives, with the value trimmed.  A line without a
\* space has the key "".
BAMBU_NT == "urn:bambulab-com:device:3dprinter"

\* nt.contains(BAMBU_NT), on the NT values of the model
ContainsBambuNt(v) == v \in {BAMBU_NT, "urn:bambulab-com:device:3dprinter:1"}

\* str::parse::<Ipv4Addr> accepts four decimal octets separated by dots and
\* nothing else: the octets, or <<>> for Err
ParseIpv4(v) == IF v = "192.168.1.100" THEN <<192, 168, 1, 100>> ELSE <<>>

\* variant: a code that is not in the table is passed through
parse_model_passthrough(model_code) ==
    CASE model_code = "3DPrinter-X1" -> "X1"
      [] model_code \in {"3DPrinter-X1-Carbon", "BL-P001"} -> "X1-Carbon"
      [] model_code = "C13" -> "X1E"
      [] model_code = "C11" -> "P1P"
      [] model_code = "C12" -> "P1S"
      [] model_code = "N7" -> "P2S"
      [] model_code = "N1" -> "A1-Mini"
      [] model_code = "N2" -> "A1"
      [] model_code = "O1D" -> "H2D"
      [] model_code = "H2S" -> "H2S"
      [] model_code = "H2C" -> "H2C"
      [] OTHER -> model_code

parse_model(model_code) ==
    CASE model_code = "3DPrinter-X1" -> "X1"
      [] model_code \in {"3DPrinter-X1-Carbon", "BL-P001"} -> "X1-Carbon"
      [] model_code = "C13" -> "X1E"
      [] model_code = "C11" -> "P1P"
      [] model_code = "C12" -> "P1S"
      [] model_code = "N7" -> "P2S"
      [] model_code = "N1" -> "A1-Mini"
      [] model_code = "N2" -> "A1"
      [] model_code = "O1D" -> "H2D"
      [] model_code = "H2S" -> "H2S"
      [] model_code = "H2C" -> "H2C"
      [] OTHER -> "Unknown"

\* one turn of `for line in text.lines()`
ScanLine(info, line) ==
    CASE line.key = "" -> info
      [] line.key = "NT:" -> [info EXCEPT !.nt = line.value]
      [] line.key = "Location:" -> [info EXCEPT !.location = line.value]
      [] line.key = "USN:" -> [info EXCEPT !.usn = line.value]
      [] line.key \in {"NOTIFY", "HOST:", "Server:"} -> info
      [] OTHER -> [info EXCEPT !.custom = Insert(@, line.key, line.value)]

RECURSIVE ScanLines(_, _)
ScanLines(info, lines) ==
    IF lines = <<>> THEN info
    ELSE ScanLines(ScanLine(info, Head(lines)), Tail(lines))

is_valid(info) == info.nt # "" /\ info.location # ""

is_bambu_printer(info) == ContainsBambuNt(info.nt)

\* custom.get(with colon).or_else(|| custom.get(without colon)).cloned()
CustomHeader(info, name) ==
    IF name \o ":" \in DOMAIN info.custom THEN info.custom[name \o ":"]
    ELSE IF name \in DOMAIN info.custom THEN info.custom[name]
    ELSE None

\* variant: a packet is taken for an announcement whatever its NT says
AcceptedAnyNt(info) == is_valid(info)

Accepted(info) == is_valid(info) /\ is_bambu_printer(info)

DeviceOf(info) ==
    IF ~Accepted(info) THEN NoDevice
    ELSE IF ParseIpv4(info.location) = <<>> THEN NoDevice
    ELSE [some |-> TRUE,
          serial |-> info.usn,
          name |-> CustomHeader(info, "DevName.bambu.com"),
          ip_address |-> ParseIpv4(info.location),
          model |-> IF CustomHeader(info, "DevModel.bambu.com") = None THEN None
                    ELSE parse_model(CustomHeader(info, "DevModel.bambu.com")),
          model_code |-> CustomHeader(info, "DevModel.bambu.com")]

parse_ssdp_packet(data) ==
    IF ~data.utf8 THEN NoDevice
    ELSE DeviceOf(ScanLines([nt |-> "", usn |-> "", location |-> "",
                             custom |-> EmptyMap], data.lines))

\* ==== DiscoverySpec: start, stop and the listener loop ====================
\* the sockets create_multicast_socket could bind on BAMBU_SSDP_PORTS, in
\* port order
BoundSockets == {<<1990, 2021>>, <<1990>>, <<2021>>, <<>>}

Line(k, v) == [key |-> k, value |-> v]

\* packets a socket delivers to a listener
Datagrams ==
    LET Announcement ==
            <<Line("NOTIFY", "* HTTP/1.1"),
              Line("NT:", "urn:bambulab-com:device:3dprinter:1"),
              Line("USN:", "00M09A123456789"), Line("Location:", "192.168.1.100")>>
    IN
    {[utf8 |-> TRUE, lines |-> Announcement],
     [utf8 |-> TRUE, lines |-> Announcement \o <<Line("DevModel.bambu.com:", "C12")>>],
     [utf8 |-> TRUE, lines |-> <<Line("NT:", "upnp:rootdevice"),
                                 Line("Location:", "192.168.1.100")>>],
     [utf8 |-> TRUE, lines |-> <<Line("NT:", "urn:bambulab-com:device:3dprinter:1"),
                                 Line("Location:", "http://192.168.1.100/")>>],
     [utf8 |-> TRUE, lines |-> <<Line("NT:", "urn:bambulab-com:device:3dprinter:1")>>],
     [utf8 |-> TRUE, lines |-> <<Line("Location:", "192.168.1.100")>>],
     [utf8 |-> TRUE, lines |-> <<Line("NT:", "urn:bambulab-com:device:3dprinter:1"),
                                 Line("Location:", "192.168.1.256")>>],
     [utf8 |-> TRUE, lines |-> <<Line("NT:", "urn:bambulab-com:device:3dprinter:1"),
                                 Line("", ""), Line("Location:", "192.168.1.100")>>],
     [utf8 |-> TRUE, lines |-> <<Line("NT:", "urn:bambulab-com:device:3dprinter:1"),
                                 Line("Location:", "192.168.1.100"),
                                 Line("NT:", "upnp:rootdevice")>>],
     [utf8 |-> FALSE, lines |-> <<>>]}

ListenerIds == 1..Len(listeners)

NotDiscovery == <<connections, states, connected, shutdown_txs, tasks, events,
                  last_sent, cmd_log, ncmds, nreports, ret, hs, trace,
                  last_payload, emitted, tail, rx, calls, codec>>

\* variant: start does not look at the flag
AlreadyRunningIgnored == FALSE

\* if self.is_running() { return Ok(()) }
AlreadyRunning == running

\* start: the flag is loaded
StartCheck(c) ==
    /\ starts[c] = "idle"
    /\ IF AlreadyRunning
       THEN /\ dret' = [op |-> "start", result |-> "Ok", spawned |-> 0]
            /\ UNCHANGED starts
       ELSE /\ Len(listeners) + Cardinality({d \in Callers : starts[d] # "idle"})
                   < MaxListeners
            /\ starts' = [starts EXCEPT ![c] = "store"]
            /\ UNCHANGED dret
    /\ UNCHANGED <<running, listeners, heard, found, NotDiscovery>>

\* start: running.store(true)
StartStore(c) ==
    /\ starts[c] = "store"
    /\ running' = TRUE
    /\ starts' = [starts EXCEPT ![c] = "bind"]
    /\ UNCHANGED <<listeners, heard, found, dret, NotDiscovery>>

\* start: the sockets are created; without any the call fails, otherwise
\* the listener is spawned
StartBind(c, sockets) ==
    /\ starts[c] = "bind"
    /\ starts' = [starts EXCEPT ![c] = "idle"]
    /\ IF sockets = <<>>
       THEN /\ dret' = [op |-> "start", result |-> "Err", spawned |-> 0]
            /\ UNCHANGED listeners
       ELSE /\ listeners' = Append(listeners, [pc |-> "test", sockets |-> sockets,
                                                todo |-> <<>>, stopped |-> FALSE])
            /\ dret' = [op |-> "start", result |-> "Ok", spawned |-> Len(listeners) + 1]
    /\ UNCHANGED <<running, heard, found, NotDiscovery>>

\* stop: running.store(false).  `stopped` remembers, for every listener in
\* its loop, that stop was called (history).
Stop ==
    /\ running' = FALSE
    /\ listeners' = [l \in ListenerIds |->
                        IF listeners[l].pc # "exited"
                        THEN [listeners[l] EXCEPT !.stopped = TRUE]
                        ELSE listeners[l]]
    /\ dret' = [op |-> "stop", result |-> "Ok", spawned |-> 0]
    /\ UNCHANGED <<starts, heard, found, NotDiscovery>>

\* while running.load(..): the one flag all listeners share
LoopTest(l) ==
    /\ listeners[l].pc = "test"
    /\ listeners' = [listeners EXCEPT ![l] =
                        IF running
                        THEN [@ EXCEPT !.pc = "recv", !.todo = listeners[l].sockets]
                        ELSE [@ EXCEPT !.pc = "exited"]]
    /\ UNCHANGED <<running, starts, heard, found, dret, NotDiscovery>>

AfterSocket(l) ==
    [listeners EXCEPT ![l].todo = Tail(@),
                      ![l].pc = IF Len(listeners[l].todo) = 1 THEN "sleep" ELSE "recv"]

\* socket.recv_from gives a packet: a printer it parses to is sent
Receive(l, data) ==
    /\ listeners[l].pc = "recv"
    /\ heard' = [listener |-> l, utf8 |-> data.utf8, lines |-> data.lines,
                 result |-> parse_ssdp_packet(data)]
    /\ IF parse_ssdp_packet(data).some
       THEN /\ Len(found) < MaxFound
            /\ found' = Append(found, [listener |-> l,
                                       printer |-> parse_ssdp_packet(data)])
       ELSE UNCHANGED found
    /\ listeners' = AfterSocket(l)
    /\ UNCHANGED <<running, starts, dret, NotDiscovery>>

\* socket.recv_from gives WouldBlock (the read timeout) or another error
ReceiveNothing(l) ==
    /\ listeners[l].pc = "recv"
    /\ listeners' = AfterSocket(l)
    /\ UNCHANGED <<running, starts, heard, found, dret, NotDiscovery>>

\* std::thread::sleep(100 ms) is over
SleepEnds(l) ==
    /\ listeners[l].pc = "sleep"
    /\ listeners' = [listeners EXCEPT ![l].pc = "test"]
    /\ UNCHANGED <<running, starts, heard, found, dret, NotDiscovery>>

ListenerStep(l) ==
    \/ LoopTest(l)
    \/ \E data \in Datagrams : Receive(l, data)
    \/ ReceiveNothing(l)
    \/ SleepEnds(l)

DiscoveryNext ==
    \/ \E c \in Callers : StartCheck(c)
    \/ \E c \in Callers : StartStore(c)
    \/ \E c \in Callers, sockets \in BoundSockets : StartBind(c, sockets)
    \/ Stop
    \/ \E l \in ListenerIds : LoopTest(l)
    \/ \E l \in ListenerIds, data \in Datagrams : Receive(l, data)
    \/ \E l \in ListenerIds : ReceiveNothing(l)
    \/ \E l \in ListenerIds : SleepEnds(l)

DiscoverySpec == Init /\ [][DiscoveryNext]_vars

\* Scheduling: a listener is a blocking thread of its own; recv_from returns
\* after the 500 ms read timeout at the latest and the sleep ends.
DiscoveryFairSpec ==
    /\ DiscoverySpec
    /\ \A l \in 1..MaxListeners : WF_vars(l \in ListenerIds /\ ListenerStep(l))

\* ==== CodecSpec: the conversions, each applied to one input ===============
\* A string of digits is the sequence of its digit values; a JSON object is
\* a function on its keys; an Option is <<>> (None) or <<v>> (Some(v)).

\* x.to_string() and format!("{:x}", x)
RECURSIVE ToDigits(_, _)
ToDigits(n, base) ==
    IF n < base THEN <<n>>
    ELSE Append(ToDigits(n \div base, base), n % base)

\* s.parse::<u32>() and u32::from_str_radix(s, 16): the number, or -1 for Err
FromDigits(ds, base) ==
    LET RECURSIVE Value(_)
        Value(s) == IF s = <<>> THEN 0 ELSE base * Value(SubSeq(s, 1, Len(s) - 1)) + s[Len(s)]
    IN  IF ds = <<>> \/ \E i \in 1..Len(ds) : ds[i] >= base THEN -1 ELSE Value(ds)

\* PushAllCommand::new, GetVersionCommand::new, AmsFilamentSettingCommand::new
\* with the arguments send_command passes
NewRequest(cmd) ==
    CASE cmd.op = "PushAll" ->
            [pushing |-> [command |-> "pushall", sequence_id |-> <<"1">>]]
      [] cmd.op = "GetVersion" ->
            [info |-> [command |-> "get_version", sequence_id |-> <<"1">>]]
      [] cmd.op = "SetFilament" ->
            [print |-> [command |-> "ams_filament_setting",
                        ams_id |-> cmd.ams_id,
                        tray_id |-> cmd.tray_id,
                        slot_id |-> cmd.slot_id,
                        tray_info_idx |-> cmd.tray_info_idx,
                        setting_id |-> <<>>,
                        tray_color |-> cmd.tray_color,
                        nozzle_temp_min |-> cmd.nozzle_temp_min,
                        nozzle_temp_max |-> cmd.nozzle_temp_max,
                        tray_type |-> cmd.tray_type,
                        sequence_id |-> "1"]]

\* derive(Serialize): an optional field with skip_serializing_if is left
\* out when None and written as its value otherwise
Serialize(request) ==
    LET Optional == IF "print" \in DOMAIN request THEN {"setting_id"} ELSE {"sequence_id"}
        Object(body) ==
            [k \in {f \in DOMAIN body : f \notin Optional \/ body[f] # <<>>} |->
                IF k \in Optional THEN body[k][1] ELSE body[k]]
    IN  [k \in DOMAIN request |-> Object(request[k])]

\* variant: an optional field the object lacks is read as the empty string
DeserializeDefault(json) ==
    LET Optional == IF "print" \in DOMAIN json THEN {"setting_id"} ELSE {"sequence_id"}
        Struct(object) ==
            [f \in DOMAIN object \cup Optional |->
                IF f \notin Optional THEN object[f]
                ELSE IF f \in DOMAIN object THEN <<object[f]>> ELSE <<"">>]
    IN  [k \in DOMAIN json |-> Struct(json[k])]

\* derive(Deserialize): an optional field is None when the object lacks it
Deserialize(json) ==
    LET Optional == IF "print" \in DOMAIN json THEN {"setting_id"} ELSE {"sequence_id"}
        Struct(object) ==
            [f \in DOMAIN object \cup Optional |->
                IF f \notin Optional THEN object[f]
                ELSE IF f \in DOMAIN object THEN <<object[f]>> ELSE <<>>]
    IN  [k \in DOMAIN json |-> Struct(json[k])]

\* variant: every request goes to the topic of the first printer
send_command_first(serial, cmd) ==
    [topic |-> <<"device", "P1", "request">>,
     qos |-> "AtLeastOnce",
     payload |-> Serialize(NewRequest(cmd))]

\* send_command up to client.publish
send_command(serial, cmd) ==
    [topic |-> <<"device", serial, "request">>,
     qos |-> "AtLeastOnce",
     payload |-> Serialize(NewRequest(cmd))]

\* variant: every phase name is taken for the default variant
GcodeStateDefault(name) == "Unknown"

\* derive(Deserialize) of GcodeState with #[serde(other)] Unsupported, and
\* the name format!("{:?}", ..) gives the variant
GcodeState(name) ==
    IF name \in {"Unknown", "IDLE", "SLICING", "PREPARE", "RUNNING", "FINISH",
                 "FAILED", "PAUSE"}
    THEN name ELSE "Unsupported"

\* serde_json::from_str::<Message> of {"print": print}: PrintData, or ok =
\* FALSE where a required field is missing or a number does not parse
DecodePrint(print) ==
    LET Opt(object, key) == IF key \in DOMAIN object THEN <<object[key]>> ELSE <<>>
        Number(object, key) ==
            IF key \in DOMAIN object THEN <<FromDigits(object[key], 10)>> ELSE <<>>
        Tray(t) == [id |-> Number(t, "id"), tray_type |-> Opt(t, "tray_type")]
        TrayOk(t) == Number(t, "id") # <<-1>>
        Unit(u) == [id |-> FromDigits(u.id, 10),
                    tray |-> [i \in 1..Len(u.tray) |-> Tray(u.tray[i])]]
        UnitOk(u) ==
            /\ {"id", "humidity", "tray"} \subseteq DOMAIN u
            /\ FromDigits(u.id, 10) # -1
            /\ \A i \in 1..Len(u.tray) : TrayOk(u.tray[i])
        Units == IF "ams" \in DOMAIN print /\ "ams" \in DOMAIN print.ams
                 THEN print.ams.ams ELSE <<>>
    IN  [ok |-> /\ \A i \in 1..Len(Units) : UnitOk(Units[i])
                /\ Number(print, "gcode_file_prepare_percent") # <<-1>>
                /\ ("vt_tray" \in DOMAIN print => TrayOk(print.vt_tray)),
         data |->
            [gcode_state |-> IF "gcode_state" \in DOMAIN print
                             THEN <<GcodeState(print.gcode_state)>> ELSE <<>>,
             gcode_file_prepare_percent |-> Number(print, "gcode_file_prepare_percent"),
             subtask_name |-> Opt(print, "subtask_name"),
             layer_num |-> Opt(print, "layer_num"),
             total_layer_num |-> Opt(print, "total_layer_num"),
             ams |-> IF "ams" \notin DOMAIN print THEN <<>>
                     ELSE <<[ams |-> IF "ams" \notin DOMAIN print.ams THEN <<>>
                                     ELSE <<[i \in 1..Len(Units) |-> Unit(Units[i])]>>]>>,
             vt_tray |-> IF "vt_tray" \in DOMAIN print
                         THEN <<Tray(print.vt_tray)>> ELSE <<>>]]

\* variant: the state is built on the one sent last
StartingStateLast(sent) ==
    IF sent = <<>>
    THEN [gcode_state |-> <<>>, print_progress |-> <<>>, layer_num |-> <<>>,
          total_layer_num |-> <<>>, subtask_name |-> <<>>, ams_trays |-> <<>>,
          vt_tray |-> <<>>]
    ELSE sent[Len(sent)]

\* let mut state = PrinterState::default()
StartingState(sent) ==
    [gcode_state |-> <<>>, print_progress |-> <<>>, layer_num |-> <<>>,
     total_layer_num |-> <<>>, subtask_name |-> <<>>, ams_trays |-> <<>>,
     vt_tray |-> <<>>]

\* the loops over ams_units and their trays: one push per tray with an id
RECURSIVE PushTrays(_, _)
PushTrays(ams_trays, ams_units) ==
    IF ams_units = <<>> THEN ams_trays
    ELSE LET ams_unit == Head(ams_units)
             HasId(tray) == tray.id # <<>>
             with_id == SelectSeq(ams_unit.tray, HasId)
         IN  PushTrays(ams_trays \o
                          [i \in 1..Len(with_id) |->
                              [ams_id |-> ams_unit.id,
                               tray_id |-> with_id[i].id[1],
                               tray_type |-> with_id[i].tray_type]],
                       Tail(ams_units))

\* handle_print_message: the state it sends, assigned field by field on
\* `state`
handle_print_message(state, data) ==
    [gcode_state |-> IF data.gcode_state # <<>> THEN data.gcode_state
                     ELSE state.gcode_state,
     print_progress |-> data.gcode_file_prepare_percent,
     layer_num |-> data.layer_num,
     total_layer_num |-> data.total_layer_num,
     subtask_name |-> data.subtask_name,
     ams_trays |-> IF data.ams # <<>> /\ data.ams[1].ams # <<>>
                   THEN PushTrays(state.ams_trays, data.ams[1].ams[1])
                   ELSE state.ams_trays,
     vt_tray |-> IF data.vt_tray # <<>>
                 THEN <<[ams_id |-> 255,
                         tray_id |-> IF data.vt_tray[1].id # <<>>
                                     THEN data.vt_tray[1].id[1] ELSE 254,
                         tray_type |-> data.vt_tray[1].tray_type]>>
                 ELSE state.vt_tray]

\* handle_message: the StateUpdate states sent so far, after this payload
handle_message(sent, print) ==
    IF DecodePrint(print).ok
    THEN Append(sent, handle_print_message(StartingState(sent), DecodePrint(print).data))
    ELSE sent

\* the inputs of the conversions
Inputs ==
    LET HeaderLines ==
            {Line("NT:", "urn:bambulab-com:device:3dprinter:1"),
             Line("NT:", "upnp:rootdevice"),
             Line("Location:", "192.168.1.100"),
             Line("USN:", "00M09A123456789"),
             Line("DevName.bambu.com:", "My Printer"),
             Line("DevModel.bambu.com:", "3DPrinter-X1-Carbon"),
             Line("DevModel.bambu.com:", "C12"),
             Line("DevModel.bambu.com", "zz")}
        Packets ==
            {[kind |-> "packet", utf8 |-> FALSE, lines |-> <<>>]} \cup
            {[kind |-> "packet", utf8 |-> TRUE, lines |-> ls] :
                ls \in UNION {[1..n -> HeaderLines] : n \in 0..MaxLines}}
        Codes ==
            {[kind |-> "code", code |-> c] :
                c \in {"3DPrinter-X1", "3DPrinter-X1-Carbon", "BL-P001", "C13", "C11",
                       "C12", "N7", "N1", "N2", "O1D", "H2S", "H2C", "unknown", ""}}
        Numbers ==
            {[kind |-> "number", n |-> n, base |-> b] :
                n \in {0, 1, 9, 10, 15, 16, 100, 190, 254, 255, 256, 4095, 65535,
                       2147483647},
                b \in {10, 16}}
        Commands ==
            {[kind |-> "command", serial |-> s, cmd |-> c] :
                s \in Serials,
                c \in {[op |-> "PushAll"], [op |-> "GetVersion"]} \cup
                      [op : {"SetFilament"}, ams_id : {0, 255}, tray_id : {0, 3},
                       slot_id : {0, 3}, tray_info_idx : {"GFL99", ""},
                       tray_type : {"PLA"}, tray_color : {"FF0000FF"},
                       nozzle_temp_min : {190}, nozzle_temp_max : {250, 0}]}
    IN  Packets \cup Codes \cup Numbers \cup Commands

\* print objects of report payloads
Reports ==
    LET T(id, type) == [id |-> id, tray_type |-> type]
        U(id, trays) == [id |-> id, humidity |-> "5", tray |-> trays]
        Jobs ==
            {EmptyMap,
             [gcode_state |-> "RUNNING", layer_num |-> 10, total_layer_num |-> 120],
             [gcode_state |-> "FINISH", gcode_file_prepare_percent |-> <<1, 0, 0>>,
              subtask_name |-> "job", layer_num |-> 120, total_layer_num |-> 120],
             [gcode_state |-> "BOGUS"],
             [gcode_state |-> "Unknown", layer_num |-> 0],
             [gcode_file_prepare_percent |-> <<10>>]}
        Trays ==
            {EmptyMap,
             [ams |-> EmptyMap],
             [ams |-> [ams |-> <<>>]],
             [ams |-> [ams |-> <<U(<<0>>, <<T(<<0>>, "PLA"), T(<<1>>, "PETG")>>)>>]],
             [ams |-> [ams |-> <<U(<<0>>, <<T(<<0>>, "PLA"), [tray_type |-> "ABS"],
                                            T(<<3>>, "PETG")>>),
                                 U(<<1>>, <<[id |-> <<2>>]>>)>>],
              vt_tray |-> T(<<2, 5, 4>>, "TPU")],
             [ams |-> [ams |-> <<[id |-> <<0>>, tray |-> <<>>]>>]],
             [ams |-> [ams |-> <<U(<<0>>, <<T(<<10>>, "PLA")>>)>>]],
             [vt_tray |-> [tray_type |-> "PLA"]]}
    IN  {j @@ t : j \in Jobs, t \in Trays}

NotCodec == <<connections, states, connected, shutdown_txs, tasks, events,
              last_sent, cmd_log, ncmds, nreports, ret, hs, trace,
              last_payload, emitted, tail, rx, calls, discovery>>

\* parse_ssdp_packet applied to the packet
ParsePacket ==
    /\ input.kind = "packet" /\ output = NoInput
    /\ output' = [kind |-> "device", device |-> parse_ssdp_packet(input)]
    /\ UNCHANGED <<input, NotCodec>>

\* parse_model applied to the code
LookupModel ==
    /\ input.kind = "code" /\ output = NoInput
    /\ output' = [kind |-> "model", model |-> parse_model(input.code)]
    /\ UNCHANGED <<input, NotCodec>>

\* a string-encoded number is written and read back
RoundTrip ==
    /\ input.kind = "number" /\ output = NoInput
    /\ output' = [kind |-> "number", text |-> ToDigits(input.n, input.base),
                  n |-> FromDigits(ToDigits(input.n, input.base), input.base)]
    /\ UNCHANGED <<input, NotCodec>>

\* send_command, with the result of client.publish
TranslateCommand(published) ==
    /\ input.kind = "command" /\ output = NoInput
    /\ output' = [kind |-> "request",
                  requests |-> <<send_command(input.serial, input.cmd)>>,
                  result |-> IF published THEN "Ok" ELSE "Err"]
    /\ UNCHANGED <<input, NotCodec>>

\* a report payload arrives
FeedReport(print) ==
    /\ \/ input = NoInput /\ output = NoInput
       \/ input.kind = "report" /\ output.kind = "state" /\ output.seq = input.seq
    /\ IF input = NoInput THEN input' = [kind |-> "report", seq |-> 1, print |-> print]
       ELSE /\ input.seq < MaxReports
            /\ input' = [kind |-> "report", seq |-> input.seq + 1, print |-> print]
    /\ UNCHANGED <<output, NotCodec>>

\* handle_message on the payload
HandlePayload ==
    /\ input.kind = "report"
    /\ IF output = NoInput THEN TRUE ELSE output.seq < input.seq
    /\ output' = [kind |-> "state", seq |-> input.seq,
                  sent |-> handle_message(IF output = NoInput THEN <<>> ELSE output.sent,
                                          input.print)]
    /\ UNCHANGED <<input, NotCodec>>

CodecInit ==
    /\ InitManager /\ InitDiscovery
    /\ input \in Inputs \cup {NoInput}
    /\ output = NoInput

CodecNext ==
    \/ ParsePacket
    \/ LookupModel
    \/ RoundTrip
    \/ \E published \in BOOLEAN : TranslateCommand(published)
    \/ \E print \in Reports : FeedReport(print)
    \/ HandlePayload

CodecSpec == CodecInit /\ [][CodecNext]_vars

\* ---- vocabulary of the properties ---------------------------------------
\* session tasks for serial s that have not ended
LiveTasks(s) == {t \in TaskIds : Alive(t) /\ tasks[t].serial = s}

\* connect(s) returned Ok and disconnect(s) was not called since: connect
\* stores the handle, only disconnect removes it
Registered(s) == s \in DOMAIN connections

\* no session task was ever spawned for s
NeverConnected(s) == \A t \in TaskIds : tasks[t].serial # s

\* the registries and caches of the manager
Registries == <<connections, shutdown_txs, connected, states>>

TypeOK ==
    /\ DOMAIN connections \subseteq Serials
    /\ DOMAIN shutdown_txs \subseteq Serials
    /\ DOMAIN connected \subseteq Serials
    /\ DOMAIN states \subseteq Serials
    /\ Len(tasks) <= MaxSessions
    /\ Len(events) <= MaxPending

\* ---- C1 -----------------------------------------------------------------
\* C1: in every reachable state there is at most one session task alive
\* (connecting, active or waiting to reconnect) for every serial.
C1_AtMostOneSession == \A s \in Serials : Cardinality(LiveTasks(s)) <= 1

\* ---- C2 -----------------------------------------------------------------
\* C2: once Connect(S) has returned success and no Disconnect(S) was called
\* since, a further Connect(S) fails with AlreadyConnected, spawns no session
\* and leaves the registries, the connected flags and the cached states
\* unchanged, whatever state the first session is in.
C2_SecondConnectRejected ==
    [][\A s \in Serials :
         (Registered(s) /\ Connect(s)) =>
             /\ ret'.result = "AlreadyConnected"
             /\ tasks' = tasks
             /\ UNCHANGED Registries]_vars

\* ---- C3 -----------------------------------------------------------------
\* C3: after Disconnect(S) has returned and until the next Connect(S),
\* IsConnected(S) is false and GetState(S) is absent in every later state,
\* also after the event task has applied what the stopped session emitted.
C3_DisconnectedStaysCleared ==
    \A s \in Serials :
        (~NeverConnected(s) /\ ~Registered(s)) =>
            (~IsConnected(s) /\ s \notin DOMAIN states)

\* ---- C4 -----------------------------------------------------------------
\* C4: Disconnect(S) for a serial that was never connected returns success,
\* emits no event and leaves the session registry, the stop-signal registry,
\* the connected flags and the cached states as they were.
C4_DisconnectUnknownNoop ==
    [][\A s \in Serials :
         (NeverConnected(s) /\ Disconnect(s)) =>
             /\ ret'.result = "Ok"
             /\ events' = events
             /\ tasks' = tasks
             /\ UNCHANGED Registries]_vars

\* a disconnect of a never-connected serial has returned while the other
\* serial has a registered session, a connected flag and a cached state
C4_Witness ==
    /\ ret.op = "disconnect" /\ ret.result = "Ok"
    /\ NeverConnected(ret.serial)
    /\ \E s \in Serials : Registered(s) /\ IsConnected(s) /\ s \in DOMAIN states
\* ---- C5 -----------------------------------------------------------------
\* the event task has handled every event sent so far
CaughtUp == events = <<>>

HasActiveSession(s) == \E t \in LiveTasks(s) : tasks[t].pc = "active"

\* number of times command c sits in a command queue
QueueCount(c) ==
    Cardinality({p \in TaskIds \X (1..MaxCommands) :
                    /\ p[2] \in DOMAIN tasks[p[1]].command_rx
                    /\ tasks[p[1]].command_rx[p[2]] = c})

\* C6 as stated: SendCommand(S, c) while S has no Active session (never
\* connected, disconnected, or its session not yet or no longer Active)
\* returns NotConnected and enqueues nothing.
C6_NoActiveSessionRejected ==
    [][\A s \in Serials :
         (~HasActiveSession(s) /\ SendCommand(s)) =>
             (ret'.result = "NotConnected" /\ tasks' = tasks)]_vars

\* C6 amended: SendCommand(S, c) while S has no session in the registry
\* (never connected, or disconnected and not connected again) returns
\* NotConnected and enqueues nothing, and a command that was not accepted is
\* in no queue and is never published.
C6_UnregisteredRejected ==
    /\ [][\A s \in Serials :
            (~Registered(s) /\ SendCommand(s)) =>
                (ret'.result = "NotConnected" /\ tasks' = tasks)]_vars
    /\ [](\A c \in 1..MaxCommands :
            cmd_log[c].result # "Ok" =>
                (QueueCount(c) = 0 /\ cmd_log[c].published = 0))

\* a command was sent to a disconnected serial whose stopped session is
\* still running, and was rejected
C6_Witness ==
    /\ ret.op = "send_command" /\ ret.result = "NotConnected"
    /\ ~Registered(ret.serial) /\ LiveTasks(ret.serial) # {}
    /\ ncmds >= 1 /\ cmd_log[ncmds].result = "NotConnected"

\* ---- C7 -----------------------------------------------------------------
\* C7 as stated: every command for which SendCommand returned success is
\* waiting in the queue or was published exactly once; it is never
\* published twice and never dropped unpublished.
C7_ExactlyOnce ==
    \A c \in 1..MaxCommands :
        cmd_log[c].result = "Ok" => QueueCount(c) + cmd_log[c].published = 1

\* C7 amended: every command for which SendCommand returned success is taken
\* from the queue at most once and published at most once, never twice; it
\* is dropped unpublished when its session is stopped before taking it or
\* when the publish fails.
C7_AtMostOnce ==
    \A c \in 1..MaxCommands :
        QueueCount(c) + cmd_log[c].published <= 1

\* an accepted command was taken from the queue and published
C7_Witness ==
    \E c \in 1..MaxCommands :
        cmd_log[c].result = "Ok" /\ cmd_log[c].published = 1 /\ QueueCount(c) = 0

\* task t ends in this step
Exits(t) == Alive(t) /\ tasks'[t].pc = "stopped"

\* ---- C8 -----------------------------------------------------------------
\* task t exists and is at program point p
At(t, p) == t \in TaskIds /\ tasks[t].pc = p

\* a connection attempt or the steady-state loop of t ends with an error
TransportFailure(t) ==
    /\ At(t, "connecting") \/ At(t, "active")
    /\ tasks'[t].pc \notin {tasks[t].pc, "active", "stopped"}

\* task t exists and its attempt or its connection fails in this step
FailureOf(t) == t \in TaskIds /\ Fail(t)

C9_DisconnectedOnlyAfterConnected ==
    [][\A t \in TaskIds :
         Exits(t) =>
             /\ ~tasks[t].was_connected => events' = events
             /\ tasks[t].pc = "active" =>
                    events' = Append(events, EvDisconnected(t, tasks[t].serial))]_vars

\* C9 amended: a stopped session emits Disconnected before exiting in every
\* case, when it is Active and also when it never emitted Connected.
C9_DisconnectedOnEveryExit ==
    [][\A t \in TaskIds :
         Exits(t) => events' = Append(events, EvDisconnected(t, tasks[t].serial))]_vars

\* a task that never sent Connected has ended and its Disconnected is in
\* the channel
C9_Witness ==
    \E t \in TaskIds :
        /\ ~Alive(t) /\ ~tasks[t].was_connected
        /\ events = <<EvDisconnected(t, tasks[t].serial)>>
        /\ \A u \in TaskIds \ {t} : tasks[u].serial # tasks[t].serial

\* ---- C10 ----------------------------------------------------------------
\* the step sends an event of task t
Emits(t) == Len(events') > Len(events) /\ events'[Len(events')].task = t

\* C10: once a session has observed the stop signal it makes no further
\* connection attempt, takes and publishes no further command and emits no
\* further event: the task is over.
C10_StopIsTerminal ==
    [][\A t \in TaskIds :
         tasks[t].observed => (tasks'[t] = tasks[t] /\ ~Emits(t))]_vars

\* a session stopped while Active has ended, its last event was applied and
\* another session exists
C10_Witness ==
    \E t \in TaskIds :
        /\ tasks[t].observed /\ tasks[t].was_connected
        /\ CaughtUp /\ ~IsConnected(tasks[t].serial)
        /\ \E u \in TaskIds : Alive(u)

\* ---- C11 ----------------------------------------------------------------
\* the steps of a connect_and_run that reaches its steady-state loop
HandshakeOrder == <<"connack", "subscribe", "pushall", "Connected">>

IsPrefix(a, b) == Len(a) <= Len(b) /\ SubSeq(b, 1, Len(a)) = a

\* the step sends a Connected event
EmitsConnected ==
    /\ Len(events') = Len(events) + 1
    /\ events'[Len(events')].type = "Connected"

\* C11: in every connection attempt the steps come in the order connection
\* acknowledgement, subscription to the report topic, publication of the
\* pushall request, Connected event; Connected is sent only in an attempt
\* whose earlier steps all succeeded, and no queued command is published
\* before the pushall request of its connection.
C11_HandshakeOrder ==
    /\ [](\/ IsPrefix(trace, HandshakeOrder)
          \/ /\ IsPrefix(HandshakeOrder, trace)
             /\ \A i \in 5..Len(trace) : trace[i] = "command")
    /\ [][EmitsConnected => trace' = HandshakeOrder]_vars
    /\ [][\A t \in TaskIds :
            (tasks[t].pc \in {"connecting", "subscribing", "pushall"}
             /\ tasks'[t].pc = "sleeping") =>
                /\ ~EmitsConnected
                /\ \A i \in 1..Len(trace') : trace'[i] # "Connected"]_vars

\* after a failed attempt the session has connected again: its Disconnected
\* was applied, the new attempt did all four steps and then published a
\* command that was queued
C11_Witness ==
    /\ trace = HandshakeOrder \o <<"command">>
    /\ OnePrinter \in DOMAIN connected /\ ~IsConnected(OnePrinter)
    /\ \E t \in TaskIds : At(t, "active")

\* ---- C12 ----------------------------------------------------------------
\* C12 as stated: the handshake ends after at most 30 polls; it fails as a
\* timeout only after 30 waits of one second each, whatever the polls
\* returned.
C12_TimeoutAfterThirtyWaits ==
    /\ hs.polls <= HandshakeAttempts
    /\ hs.outcome = "timeout" => hs.waits = HandshakeAttempts

\* C12 amended: the handshake ends after at most 30 polls; it succeeds only
\* if a poll returned the acknowledgement, fails at once when a poll returns
\* a transport error, and fails as a timeout when 30 polls have returned
\* without acknowledgement.  Each poll waits at most one second: a poll that
\* returns some other pre-connect event ends early and still counts as one
\* of the 30, so a timeout follows 30 waits less the polls that ended early.
C12_HandshakeBounded ==
    /\ [](hs.polls <= HandshakeAttempts /\ hs.waits <= hs.polls)
    /\ [](hs.outcome = "timeout" =>
            (hs.polls = HandshakeAttempts /\ trace = <<>>
             /\ hs.last \in {"Other", "Elapsed"}))
    /\ [](hs.outcome \in {"acknowledged", "connected"} => IsPrefix(<<"connack">>, trace))
    /\ [](hs.last = "ConnAck" => hs.outcome # "timeout")
    /\ [](hs.last = "Error" => hs.outcome = "error")
    /\ [](\A t \in TaskIds :
            (At(t, "connecting") /\ hs.polls > 0) =>
                (hs.last \in {"Other", "Elapsed"} /\ hs.polls < HandshakeAttempts))

\* a handshake has timed out although one of its polls ended early
C12_Witness ==
    /\ hs.outcome = "timeout" /\ hs.polls = HandshakeAttempts
    /\ hs.waits = HandshakeAttempts - 1
    /\ \E t \in TaskIds : At(t, "sleeping")

\* ---- C13 ----------------------------------------------------------------
\* a payload that is not a report the session acts on: not UTF-8, not JSON,
\* neither known key, or a known key whose value does not deserialize (and
\* no other key that does)
Malformed(p) ==
    \/ ~p.utf8
    \/ ~p.json
    \/ p.print = "absent" /\ p.info = "absent"
    \/ p.print = "invalid" /\ p.info # "valid"
    \/ p.info = "invalid" /\ p.print # "valid"

SameEntries(u) ==
    /\ (u \in DOMAIN connected') = (u \in DOMAIN connected)
    /\ u \in DOMAIN connected => connected'[u] = connected[u]
    /\ (u \in DOMAIN states') = (u \in DOMAIN states)
    /\ u \in DOMAIN states => states'[u] = states[u]

\* C14: handle_event for an event of serial S changes only S's entry:
\* Connected sets S's flag to true, Disconnected sets it to false, StateUpdate
\* replaces S's cached state by the event's state, Error changes neither
\* flags nor states; the session registry, the stop-signal registry and the
\* entries of every other serial stay as they are.
C14_EventChangesOnlyItsSerial ==
    /\ [][HandleEvent =>
            LET e == Head(events) IN
            /\ connections' = connections /\ shutdown_txs' = shutdown_txs
            /\ tasks' = tasks
            /\ \A u \in Serials \ {e.serial} : SameEntries(u)
            /\ e.type = "Connected" =>
                   (connected' = Insert(connected, e.serial, TRUE) /\ states' = states)
            /\ e.type = "Disconnected" =>
                   (connected' = Insert(connected, e.serial, FALSE) /\ states' = states)
            /\ e.type = "StateUpdate" =>
                   (states' = Insert(states, e.serial, e.state)
                    /\ connected' = connected)]_vars
    /\ [](\A s \in Serials :
            /\ ApplyConnected(EvError(0, s)) = connected
            /\ ApplyState(EvError(0, s)) = states)

\* events of both printers were applied: one is connected with a cached
\* state, the other was marked not connected
C14_Witness ==
    \E s \in Serials, u \in Serials :
        /\ s # u /\ CaughtUp
        /\ IsConnected(s) /\ s \in DOMAIN states
        /\ u \in DOMAIN connected /\ ~IsConnected(u)

\* ---- C20 ----------------------------------------------------------------
\* C20: a connected flag for S exists only between Connect(S) and
\* Disconnect(S): when S is not registered, every session task of S has
\* ended and all events are applied, S is not in GetConnectionStatuses().
C20_NoRecordAfterDisconnect ==
    \A s \in Serials :
        (~Registered(s) /\ LiveTasks(s) = {} /\ CaughtUp) =>
            s \notin DOMAIN connected

\* ---- C15 ----------------------------------------------------------------
\* C15 as stated: each of the two subscribers receives every event the
\* session emits, whatever the relative speed of subscribers and session.
C15_EveryEventReceived == \A r \in Receivers : rx[r].missed = 0

\* C15 amended: each subscriber receives the events in the order the session
\* emitted them, and it receives every event as long as it is never more
\* than 100 events behind the session; a subscriber that falls further
\* behind loses the oldest events it had not received.
C15_InOrderUnlessLagged ==
    /\ [][\A r \in Receivers :
            /\ rx'[r].next >= rx[r].next
            /\ rx'[r].missed >= rx[r].missed
            /\ rx'[r].missed > rx[r].missed => tail - rx[r].next > EventCapacity
            /\ (rx'[r].next > rx[r].next /\ rx'[r].missed = rx[r].missed) =>
                   rx'[r].next = rx[r].next + 1]_vars
    /\ [](\A r \in Receivers : rx[r].next <= tail /\ rx[r].missed <= rx[r].next)

\* more than 100 events were sent; one subscriber has received every one of
\* them, the other fell behind, lost events and goes on receiving
C15_Witness ==
    /\ tail > EventCapacity
    /\ rx[1].held /\ rx[1].next = tail /\ rx[1].missed = 0
    /\ rx[2].held /\ rx[2].missed > 0 /\ rx[2].next > Oldest

InProgress(c) == calls[c] # Idle

\* the call cannot take its next step in this state
Waits(c) == InProgress(c) /\ ~ENABLED CallStep(c)

HoldsGuard(c) == calls[c].pc \in {"sending", "send_stop"}

\* call c waits for the lock call d holds or is first in line for
WaitsFor(c, d) ==
    \/ calls[c].pc = "read_connections" /\ calls[d].pc = "write_connections"
    \/ calls[c].pc = "write_connections" /\ calls[d].pc = "sending"
    \/ calls[c].pc = "lock_shutdown_txs" /\ calls[d].pc = "send_stop"

\* the call waits, and not just for a call that can go on and let it pass
HeldUp(c) ==
    /\ Waits(c)
    /\ \A d \in Callers : WaitsFor(c, d) => Waits(d)

FullQueue(t) == Len(tasks[t].command_rx) = CommandCapacity

\* ---- C17 ----------------------------------------------------------------
\* C17 as stated: a call that holds one of the manager's guards can always
\* take its next step (it never waits for a queue, a channel or a session
\* while holding it), and no connect or disconnect call is held up.
C17_NoWaitUnderLock ==
    /\ \A c \in Callers : HoldsGuard(c) => ~Waits(c)
    /\ \A c \in Callers : calls[c].op \in {"connect", "disconnect"} => ~HeldUp(c)

C19_ConnectNeverHeldUp ==
    \A c \in Callers : calls[c].op = "connect" => ~HeldUp(c)

\* ---- vocabulary of the discovery properties ------------------------------
\* the value a packet gives a header: that of its last line with this key,
\* None without such a line
Header(lines, key) ==
    LET at == {i \in 1..Len(lines) : lines[i].key = key}
    IN  IF at = {} THEN None
        ELSE lines[CHOOSE i \in at : \A j \in at : j <= i].value

\* Packet p is text, its NT header names the vendor's notification type and
\* its Location header is an address.
IsAnnouncement(p) ==
    /\ p.utf8
    /\ ContainsBambuNt(Header(p.lines, "NT:"))
    /\ ParseIpv4(Header(p.lines, "Location:")) # <<>>

\* ---- C21 ----------------------------------------------------------------
\* C21: a start call that finds the running flag set returns Ok, spawns no
\* listener, binds no socket and leaves the flag true.
C21_StartWhileRunningNoop ==
    [][\A c \in Callers :
         (running /\ StartCheck(c)) =>
             /\ dret' = [op |-> "start", result |-> "Ok", spawned |-> 0]
             /\ running'
             /\ UNCHANGED <<listeners, starts>>]_vars

\* start has returned Ok without spawning while a listener is in its loop
C21_Witness ==
    /\ dret = [op |-> "start", result |-> "Ok", spawned |-> 0]
    /\ running
    /\ \E l \in ListenerIds : listeners[l].pc # "exited"

\* ---- C22 ----------------------------------------------------------------
\* C22: a listener that was in its loop when stop was called eventually
\* leaves the loop, whatever calls follow the stop.
C22_StoppedListenerExits ==
    \A l \in 1..MaxListeners :
        (l \in ListenerIds /\ listeners[l].stopped)
            ~> (l \in ListenerIds /\ listeners[l].pc = "exited")

\* ---- C23 ----------------------------------------------------------------
\* C23: a received packet is parsed to a DiscoveredPrinter exactly when it
\* declares the vendor's notification type and carries a location that is an
\* address; any other packet sends nothing; after either the listener is
\* still in its loop and goes on to its next receive or sleep.
C23_AnnouncementIffVendorAndAddress ==
    /\ [](heard.listener # 0 =>
            (heard.result.some <=> IsAnnouncement(heard)))
    /\ [][\A l \in ListenerIds :
            LET data == [utf8 |-> heard'.utf8, lines |-> heard'.lines]
            IN  Receive(l, data) =>
                  /\ listeners'[l].pc \in {"recv", "sleep"}
                  /\ running' = running
                  /\ IF IsAnnouncement(data)
                     THEN Len(found') = Len(found) + 1
                     ELSE found' = found]_vars

\* a listener has discarded a packet that names the vendor's type without a
\* usable address, nothing was sent, and it is at its next receive
C23_Witness ==
    /\ heard.listener # 0 /\ ~heard.result.some
    /\ heard.lines = <<Line("NT:", "urn:bambulab-com:device:3dprinter:1"),
                        Line("Location:", "192.168.1.256")>>
    /\ found = <<>>
    /\ listeners[heard.listener].pc = "recv"

\* ---- C24 ----------------------------------------------------------------
\* C24: the model of a device parsed from an announcement is the lookup of
\* its model-code header: "C12" gives "P1S", a code outside the table gives
\* "Unknown", and without a model-code header the model is absent; a packet
\* whose NT lines all name a foreign type gives no device.
C24_ModelIsLookupOfCode ==
    LET Table == {"3DPrinter-X1", "3DPrinter-X1-Carbon", "BL-P001", "C13", "C11",
                  "C12", "N7", "N1", "N2", "O1D", "H2S", "H2C"}
        code == IF Header(input.lines, "DevModel.bambu.com:") # None
                THEN Header(input.lines, "DevModel.bambu.com:")
                ELSE Header(input.lines, "DevModel.bambu.com")
        foreign == /\ \E i \in 1..Len(input.lines) : input.lines[i].key = "NT:"
                   /\ \A i \in 1..Len(input.lines) :
                         input.lines[i].key = "NT:"
                             => ~ContainsBambuNt(input.lines[i].value)
    IN  /\ output.kind = "model" =>
            /\ input.code = "C12" => output.model = "P1S"
            /\ input.code \notin Table => output.model = "Unknown"
        /\ output.kind = "device" =>
            /\ foreign => ~output.device.some
            /\ output.device.some =>
                /\ output.device.model_code = code
                /\ code = "C12" => output.device.model = "P1S"
                /\ code \notin Table \cup {None} => output.device.model = "Unknown"
                /\ code = None => output.device.model = None

\* an announcement with model code "C12" has been parsed to a device of
\* model "P1S"
C24_Witness ==
    /\ output.kind = "device" /\ output.device.some
    /\ Header(input.lines, "DevModel.bambu.com:") = "C12"
    /\ output.device.model = "P1S"

\* ---- C25 ----------------------------------------------------------------
\* C25: the lookup gives "X1 Carbon" for "3DPrinter-X1-Carbon", "P1P" for
\* "C11", "P1S" for "C12", "A1 Mini" for "N1", "A1" for "N2" and "Unknown"
\* for a code that is not listed.
C25_LookupAsTested ==
    output.kind = "model" =>
        /\ input.code = "3DPrinter-X1-Carbon" => output.model = "X1 Carbon"
        /\ input.code = "C11" => output.model = "P1P"
        /\ input.code = "C12" => output.model = "P1S"
        /\ input.code = "N1" => output.model = "A1 Mini"
        /\ input.code = "N2" => output.model = "A1"
        /\ input.code = "unknown" => output.model = "Unknown"

\* ---- C26 ----------------------------------------------------------------
\* C26: a packet with one NT line of the vendor's type and one USN, Location,
\* DevName.bambu.com and DevModel.bambu.com line each, in any order, is
\* parsed to a device with the USN value as serial, the DevName value as
\* name, the Location value as address and the lookup of the DevModel value
\* as model, which is "X1 Carbon" for "3DPrinter-X1-Carbon".
C26_AnnouncementFields ==
    LET Keys == {"NT:", "USN:", "Location:", "DevName.bambu.com:", "DevModel.bambu.com:"}
        WellFormed ==
            /\ input.utf8 /\ Len(input.lines) = 5
            /\ {input.lines[i].key : i \in 1..5} = Keys
            /\ IsAnnouncement(input)
        Lookup(code) == CASE code = "3DPrinter-X1-Carbon" -> "X1 Carbon"
                          [] code = "C12" -> "P1S"
                          [] OTHER -> "Unknown"
    IN  (output.kind = "device" /\ WellFormed) =>
            /\ output.device.some
            /\ output.device.serial = Header(input.lines, "USN:")
            /\ output.device.name = Header(input.lines, "DevName.bambu.com:")
            /\ output.device.ip_address = ParseIpv4(Header(input.lines, "Location:"))
            /\ output.device.model = Lookup(Header(input.lines, "DevModel.bambu.com:"))

\* ---- C27 ----------------------------------------------------------------
\* C27: the request a command is encoded to decodes to a request equal to
\* the one that was encoded, for PushAll, GetVersion and SetFilament with
\* any field values; a number written as a decimal or hexadecimal string
\* reads back as the same number.
C27_RoundTrip ==
    /\ output.kind = "request" =>
          Deserialize(output.requests[1].payload) = NewRequest(input.cmd)
    /\ output.kind = "number" => output.n = input.n

\* a SetFilament command was encoded without its absent setting_id
C27_Witness ==
    /\ output.kind = "request"
    /\ input.cmd.op = "SetFilament"
    /\ "setting_id" \notin DOMAIN output.requests[1].payload.print
    /\ Deserialize(output.requests[1].payload).print.setting_id = <<>>

\* ---- C28 ----------------------------------------------------------------
\* C28: the state sent for a report has the report's phase, layer and total
\* layer, each absent when the report omits it; the report with gcode_state
\* "RUNNING", layer_num 10 and total_layer_num 120 gives phase RUNNING,
\* layer 10 and total 120.  A phase name outside the enumeration is the
\* phase Unsupported.
C28_JobFieldsFromReport ==
    LET print == input.print
        state == output.sent[Len(output.sent)]
        Field(key) == IF key \in DOMAIN print THEN <<print[key]>> ELSE <<>>
        Phases == {"Unknown", "IDLE", "SLICING", "PREPARE", "RUNNING", "FINISH",
                   "FAILED", "PAUSE", "Unsupported"}
    IN  (output.kind = "state" /\ output.seq = input.seq /\ DecodePrint(print).ok) =>
            /\ print = [gcode_state |-> "RUNNING", layer_num |-> 10,
                        total_layer_num |-> 120]
                  => /\ state.gcode_state = <<"RUNNING">>
                     /\ state.layer_num = <<10>>
                     /\ state.total_layer_num = <<120>>
            /\ state.layer_num = Field("layer_num")
            /\ state.total_layer_num = Field("total_layer_num")
            /\ IF "gcode_state" \notin DOMAIN print THEN state.gcode_state = <<>>
               ELSE IF print.gcode_state \in Phases
                    THEN state.gcode_state = <<print.gcode_state>>
                    ELSE state.gcode_state = <<"Unsupported">>

\* the state for the report of scenario B has been sent
C28_Witness ==
    /\ output.kind = "state" /\ output.seq = input.seq
    /\ input.print = [gcode_state |-> "RUNNING", layer_num |-> 10,
                      total_layer_num |-> 120]
    /\ output.sent[Len(output.sent)].gcode_state = <<"RUNNING">>
    /\ output.sent[Len(output.sent)].layer_num = <<10>>

\* ---- C29 ----------------------------------------------------------------
\* C29: handling a report that decodes sends exactly one state, and that
\* state is a function of the report alone: its job fields are the
\* report's, its tray list has one entry per tray with an id, in the order
\* of the report, and its auxiliary tray is the report's or absent.
C29_StateFromReportAlone ==
    [][(HandlePayload /\ DecodePrint(input.print).ok) =>
        LET data == DecodePrint(input.print).data
            units == IF data.ams # <<>> /\ data.ams[1].ams # <<>>
                     THEN data.ams[1].ams[1] ELSE <<>>
            P == UNION {{<<u, i>> : i \in {k \in 1..Len(units[u].tray) :
                                              units[u].tray[k].id # <<>>}} :
                        u \in 1..Len(units)}
            Rank(p) == Cardinality({q \in P : \/ q[1] < p[1]
                                              \/ q[1] = p[1] /\ q[2] <= p[2]})
            before == IF output = NoInput THEN <<>> ELSE output.sent
            state == output'.sent[Len(output'.sent)]
        IN  /\ Len(output'.sent) = Len(before) + 1
            /\ SubSeq(output'.sent, 1, Len(before)) = before
            /\ state.gcode_state = data.gcode_state
            /\ state.print_progress = data.gcode_file_prepare_percent
            /\ state.layer_num = data.layer_num
            /\ state.total_layer_num = data.total_layer_num
            /\ state.subtask_name = data.subtask_name
            /\ Len(state.ams_trays) = Cardinality(P)
            /\ \A p \in P :
                  state.ams_trays[Rank(p)] =
                      [ams_id |-> units[p[1]].id,
                       tray_id |-> units[p[1]].tray[p[2]].id[1],
                       tray_type |-> units[p[1]].tray[p[2]].tray_type]
            /\ state.vt_tray =
                  IF data.vt_tray = <<>> THEN <<>>
                  ELSE <<[ams_id |-> 255,
                          tray_id |-> IF data.vt_tray[1].id = <<>> THEN 254
                                      ELSE data.vt_tray[1].id[1],
                          tray_type |-> data.vt_tray[1].tray_type]>>]_vars

\* after a report with trays, an auxiliary tray and a job, the state for a
\* report without any of them has been sent
C29_Witness ==
    /\ output.kind = "state" /\ output.seq = 2 /\ Len(output.sent) = 2
    /\ input.print = EmptyMap
    /\ Len(output.sent[1].ams_trays) = 3
    /\ output.sent[1].vt_tray # <<>>
    /\ output.sent[1].gcode_state = <<"FINISH">>
    /\ output.sent[2].ams_trays = <<>>
    /\ output.sent[2].vt_tray = <<>>
    /\ output.sent[2].gcode_state = <<>>

\* ---- C30 ----------------------------------------------------------------
\* C30: send_command hands exactly one request to the client, on the topic
\* device/<serial>/request of its own printer: "pushall" for PushAll,
\* "get_version" for GetVersion, "ams_filament_setting" with the command's
\* unit, tray, slot, material key, material type, colour and temperatures for
\* SetFilament; every request has sequence_id "1".
C30_OneRequestPerCommand ==
    output.kind = "request" =>
        LET cmd == input.cmd
            payload == output.requests[1].payload
        IN  /\ Len(output.requests) = 1
            /\ output.requests[1].topic = <<"device", input.serial, "request">>
            /\ cmd.op = "PushAll" =>
                  /\ DOMAIN payload = {"pushing"}
                  /\ payload.pushing = [command |-> "pushall", sequence_id |-> "1"]
            /\ cmd.op = "GetVersion" =>
                  /\ DOMAIN payload = {"info"}
                  /\ payload.info = [command |-> "get_version", sequence_id |-> "1"]
            /\ cmd.op = "SetFilament" =>
                  /\ DOMAIN payload = {"print"}
                  /\ payload.print.command = "ams_filament_setting"
                  /\ payload.print.ams_id = cmd.ams_id
                  /\ payload.print.tray_id = cmd.tray_id
                  /\ payload.print.slot_id = cmd.slot_id
                  /\ payload.print.tray_info_idx = cmd.tray_info_idx
                  /\ payload.print.tray_type = cmd.tray_type
                  /\ payload.print.tray_color = cmd.tray_color
                  /\ payload.print.nozzle_temp_min = cmd.nozzle_temp_min
                  /\ payload.print.nozzle_temp_max = cmd.nozzle_temp_max
                  /\ payload.print.sequence_id = "1"

\* a SetFilament command for the second printer has been published
C30_Witness ==
    /\ output.kind = "request" /\ output.result = "Ok"
    /\ input.serial = "P2"
    /\ input.cmd.op = "SetFilament"
    /\ output.requests[1].payload.print.tray_info_idx = "GFL99"

\* ==== the session under failures, the registries, the event task ==========

\* C31: a write error while the session publishes a queued command in steady
\* state ends the steady-state loop, as a read error does: the session
\* leaves the Active state for the reconnect delay and emits Disconnected.
C31_WriteErrorEndsLoop ==
    [][\A t \in TaskIds :
         Publish(t, FALSE) =>
             /\ tasks'[t].pc = "sleeping"
             /\ events' = Append(events, EvDisconnected(t, tasks[t].serial))]_vars

\* C32: when no Connect or Disconnect call is in progress, a serial has a
\* command handle in the session registry iff it has a stop handle in the
\* stop-signal registry, iff a live session task for it exists that both
\* handles belong to.
C32_RegistriesAgree ==
    (\A c \in Callers : calls[c] = Idle) =>
        \A s \in Serials :
            LET wired == \E t \in LiveTasks(s) :
                             /\ s \in DOMAIN connections /\ connections[s] = t
                             /\ s \in DOMAIN shutdown_txs /\ shutdown_txs[s] = t
            IN /\ (s \in DOMAIN connections) <=> (s \in DOMAIN shutdown_txs)
               /\ (s \in DOMAIN connections) <=> wired

\* C33: in every state where all emitted events have been applied (and no
\* session is left that was told to stop and has not yet ended),
\* IsConnected(S) is true iff a live session for S is in the Active state.
C33_FlagMatchesActiveSession ==
    (/\ events = <<>>
     /\ \A t \in TaskIds : Alive(t) => ~StopReady(t)) =>
        \A s \in Serials :
            IsConnected(s) <=> \E t \in LiveTasks(s) : tasks[t].pc = "active"

\* C34: the manager's event task (receiver 1) never stops and no event
\* passes it by, also when the session has sent more events than the
\* channel keeps before the task took them.
C34_EventTaskNeverStops == rx[1].held /\ rx[1].missed = 0

\* C35: in the events of one session every StateUpdate lies between a
\* Connected and the next Disconnected, and two Connected events have a
\* Disconnected between them.  The session is Active exactly from a
\* Connected it emits to the next Disconnected it emits: a step emits
\* Connected iff it enters Active, emits StateUpdate only inside Active, and
\* emits Disconnected whenever it leaves Active.
C35_StateOnlyWhileConnected ==
    [][\A t \in TaskIds :
         LET Sends(type) == Emits(t) /\ events'[Len(events')].type = type
             before == tasks[t].pc = "active"
             after == tasks'[t].pc = "active"
         IN /\ Sends("StateUpdate") => before /\ after
            /\ Sends("Connected") <=> ~before /\ after
            /\ before /\ ~after => Sends("Disconnected")]_vars

\* a session that had sent a StateUpdate on an earlier connection has failed,
\* retried and just sent Connected again
C35_Witness ==
    /\ Len(tasks) = 1 /\ tasks[1].pc = "active"
    /\ events = <<EvConnected(1, OnePrinter)>>
    /\ OnePrinter \in DOMAIN last_sent

C37_QueuedCommandsKeptInOrder ==
    [][\A t \in TaskIds :
         LET q == tasks[t].command_rx
             after == tasks'[t].command_rx
         IN /\ after # q =>
                  \/ \E c \in 1..MaxQueued : after = Append(q, c)
                  \/ tasks[t].pc = "active" /\ q # <<>> /\ after = Tail(q)
                  \/ Exits(t)
            /\ \A c \in 1..MaxQueued :
                 (c \in {q[i] : i \in DOMAIN q}
                    /\ cmd_log'[c].published > cmd_log[c].published) =>
                     /\ tasks[t].pc = "active"
                     /\ IsPrefix(HandshakeOrder, trace)
                     /\ \A d \in 1..(c - 1) : d \notin {after[i] : i \in DOMAIN after}]_vars

\* two commands were queued while the session was not Active; an earlier
\* attempt of the session has failed (its Disconnected is applied), and the
\* connection that followed has published both, its Connected still pending
C37_Witness ==
    /\ Len(tasks) = 1 /\ tasks[1].pc = "active" /\ tasks[1].command_rx = <<>>
    /\ \A c \in 1..MaxQueued : cmd_log[c].result = "Ok" /\ cmd_log[c].published = 1
    /\ trace = HandshakeOrder \o <<"command", "command">>
    /\ OnePrinter \in DOMAIN connected /\ ~connected[OnePrinter]
    /\ events = <<EvConnected(1, OnePrinter)>>

\* C38: when Connect(S) has succeeded while an earlier session task for S
\* still exists, the earlier session is stopped as a consequence: its stop
\* channel has fired, it eventually terminates, and once terminated it
\* publishes nothing and emits nothing, so that only the newest session for
\* S goes on.
C38_ReplacedSessionStops ==
    /\ [](\A t \in TaskIds :
            (Alive(t) /\ \E u \in TaskIds : u > t /\ tasks[u].serial = tasks[t].serial)
                => StopReady(t))
    /\ \A t \in 1..MaxSessions :
          (/\ t \in TaskIds /\ Alive(t)
           /\ \E u \in TaskIds : u > t /\ tasks[u].serial = tasks[t].serial)
              ~> (t \in TaskIds /\ ~Alive(t))
    /\ [][\A t \in TaskIds :
            ~Alive(t) => (tasks'[t] = tasks[t] /\ ~Emits(t))]_vars

\* the earlier session has terminated; the newest one is Active and its
\* StateUpdate is in the channel
C38_Witness ==
    /\ Len(tasks) = 2 /\ ~Alive(1) /\ tasks[1].serial = tasks[2].serial
    /\ tasks[2].pc = "active"
    /\ Len(events) = 1 /\ events[1].type = "StateUpdate" /\ events[1].task = 2

\* C39: after a Start() that failed because no socket could be bound, with
\* no other Start() in progress and no listener in its loop, the service is
\* not running: is_running() is false, so that a later Start() binds again.
C39_FailedStartLeavesStopped ==
    (/\ dret.op = "start" /\ dret.result = "Err"
     /\ \A c \in Callers : starts[c] = "idle"
     /\ \A l \in ListenerIds : listeners[l].pc = "exited") => ~running

\* C40: at most one discovery listener is alive (spawned and not yet out of
\* its loop) in every reachable state.
C40_AtMostOneListener ==
    Cardinality({l \in ListenerIds : listeners[l].pc # "exited"}) <= 1
====
